---- MODULE Spec2Model ----
(***************************************************************************)
(* Model of the meeting-assistant audio pipeline.                          *)
(*                                                                         *)
(*   Spec      TranscriptionRecorder (src/src/audio/transcription_recorder *)
(*             .py) called from several threads; every method body runs    *)
(*             under self._lock and is split at the places where it reads  *)
(*             or writes shared state.                                     *)
(*   SpecThreads  the same recorder called by two threads.                 *)
(*   SpecVad   AudioCapture._process_chunk (src/src/audio/capture.py), the *)
(*             energy VAD, fed one frame per step.                         *)
(*                                                                         *)
(* Audio is abstracted to what the code looks at: a chunk is a record      *)
(* [n |-> number of samples, e |-> RMS energy in thousandths].             *)
(* Wall-clock time (time.time(), datetime.now()) is the counter now.       *)
(***************************************************************************)
EXTENDS Integers, Sequences, FiniteSets, TLC

\* ------------------------------------------------------------------ bounds
MaxTime == 3
MaxSessions == 2
MaxSessionsThreads == 1
MaxTimeThreads == 2
MaxFrames == 14
MaxWords == 3
MaxLoudFrames == 3
MaxUnread == 1
MaxLoudApp == 2

\* ------------------------------------------------------- program constants
\* TranscriptionRecorder's constructor arguments. The model runs one
\* configuration, scaled down: one sample per second, a cap of 3 seconds and
\* a silence timeout of 2 seconds.
SampleRate == 1
MaxDurationSeconds == 3
AutoStopSilenceSeconds == 2
\* energy < 0.01 is silence (energies are in thousandths)
SilenceThreshold == 10
\* AudioCapture: chunk_size = int(sample_rate * chunk_duration_ms / 1000)
ChunkSize == 1600
\* is_speech = energy > self.vad_threshold * 0.01, vad_threshold = 0.5
SpeechThreshold == 5
\* on_audio: confidence > 0.3 (confidences are in tenths)
ConfidenceThreshold == 3
\* _transcribe_api: return text, 0.9
ApiConfidence == 9
\* on_audio has no transcription in hand
NotTranscribed == [text |-> << >>, confidence |-> -1]
\* self._speech_start_chunks, self._silence_end_chunks
SpeechStartChunks == 3
SilenceEndChunks == 10
\* "if len(self._speech_buffer) > 5"
ContextChunks == 5

\* ------------------------------------------------------------ value spaces
Threads == {"t1", "t2"}
NoThread == "nobody"
NoTime == -1
NoCallback == "no_callback"
NoTrigger == ""
ChunkLens == {1, 2}
RecEnergies == {9, 10}
Chunks == [n : ChunkLens, e : RecEnergies]
\* the chunks of the two-thread specification: a short silent one, a long loud one
ChunksThreads == {[n |-> 1, e |-> 9], [n |-> 2, e |-> 10]}
VadEnergies == {5, 6}
VadFrames == [n : {ChunkSize}, e : VadEnergies]
StartArgs == {[trigger |-> "note that", cb |-> "cb1"], [trigger |-> "repeat that", cb |-> "cb2"]}

RECURSIVE TotalSamples(_)
\* sum(len(chunk) for chunk in self._audio_buffer); len(np.concatenate(buffer))
TotalSamples(buf) ==
    IF buf = << >> THEN 0 ELSE Head(buf).n + TotalSamples(Tail(buf))

\* energy = sqrt(mean(audio ** 2)); is_silence = energy < 0.01
IsSilenceStrictMutant(chunk) == chunk.e <= SilenceThreshold
IsSilence(chunk) == chunk.e < SilenceThreshold

\* total_samples / sample_rate >= max_duration_seconds, cross-multiplied
DurationReachedMutant(buf) == TotalSamples(buf) > MaxDurationSeconds * SampleRate
DurationReached(buf) == TotalSamples(buf) >= MaxDurationSeconds * SampleRate

\* time.time() - self._silence_start >= self.auto_stop_silence_seconds
SilenceElapsedLateMutant(t0, t1) == t1 - t0 > AutoStopSilenceSeconds
SilenceElapsed(t0, t1) == t1 - t0 >= AutoStopSilenceSeconds

\* ============================================================ TriggerDetector
\* src/src/speech/trigger_detector.py. A text is a sequence of one-character
\* strings, so that the regular expressions can be modelled by what they match.
UpperChars ==
    <<"A","B","C","D","E","F","G","H","I","J","K","L","M","N","O","P","Q","R","S","T","U","V","W","X","Y","Z">>
LowerChars ==
    <<"a","b","c","d","e","f","g","h","i","j","k","l","m","n","o","p","q","r","s","t","u","v","w","x","y","z">>
\* str.lower() and str.upper() on one character
Lower(c) ==
    IF \E i \in 1..Len(UpperChars) : UpperChars[i] = c
      THEN LowerChars[CHOOSE i \in 1..Len(UpperChars) : UpperChars[i] = c]
      ELSE c
Upper(c) ==
    IF \E i \in 1..Len(LowerChars) : LowerChars[i] = c
      THEN UpperChars[CHOOSE i \in 1..Len(LowerChars) : LowerChars[i] = c]
      ELSE c
LowerStr(str) == [i \in 1..Len(str) |-> Lower(str[i])]

\* \s and str.strip(): the texts of the model hold no whitespace but the space
IsSpace(c) == c = " "
\* (?:[.?!]|$): what ends a topic before the end of the text
Terminators == {".", "?", "!"}
\* (?:^|[.\s]): what may precede a research phrase inside the text
Precede == {".", " "}
\* rstrip('.,!?;:')
TrailingPunctuation == {".", ",", "!", "?", ";", ":"}
\* _clean_topic's fillers, in its order (line 150)
Fillers ==
    <<<<"u", "m">>,
      <<"u", "h">>,
      <<"l", "i", "k", "e">>,
      <<"y", "o", "u", " ", "k", "n", "o", "w">>,
      <<"b", "a", "s", "i", "c", "a", "l", "l", "y">>,
      <<"a", "c", "t", "u", "a", "l", "l", "y">>,
      <<"s", "o">>,
      <<"w", "e", "l", "l">>>>

RECURSIVE LStrip(_)
LStrip(str) ==
    IF str # << >> /\ IsSpace(Head(str)) THEN LStrip(Tail(str)) ELSE str
RECURSIVE RStrip(_)
RStrip(str) ==
    IF str # << >> /\ IsSpace(str[Len(str)])
      THEN RStrip(SubSeq(str, 1, Len(str) - 1)) ELSE str
\* str.strip()
Strip(str) == RStrip(LStrip(str))

\* str.startswith(prefix)
StartsWith(str, prefix) ==
    Len(prefix) <= Len(str) /\ SubSeq(str, 1, Len(prefix)) = prefix
\* the literal lit stands in str at position pos
MatchesAt(str, pos, lit) ==
    /\ pos + Len(lit) - 1 <= Len(str)
    /\ \A k \in 1..Len(lit) : str[pos + k - 1] = lit[k]

RECURSIVE SpaceRun(_, _)
\* the number of whitespace characters of str from position pos on
SpaceRun(str, pos) ==
    IF pos <= Len(str) /\ IsSpace(str[pos]) THEN 1 + SpaceRun(str, pos + 1) ELSE 0

NoMatch == [found |-> FALSE, phrase |-> << >>, topic |-> << >>]

\* (.+?)(?:[.?!]|$) from position ts: the shortest non-empty topic that is
\* followed by a terminator or by the end of the text; 0 if there is none
LazyTopicLen(str, ts) ==
    LET ok == {n \in 1..(Len(str) - ts + 1) :
                  ts + n - 1 = Len(str) \/ str[ts + n] \in Terminators}
    IN IF ok = {} THEN 0 ELSE CHOOSE n \in ok : \A m \in ok : n <= m

\* (lit)\s+(.+?)(?:[.?!]|$) with the phrase at position ps: \s+ is greedy and
\* gives whitespace back only when no topic is left after it
PhraseTopicAt(str, ps, lit) ==
    IF ~MatchesAt(str, ps, lit) THEN NoMatch
    ELSE LET q == ps + Len(lit)
             w == SpaceRun(str, q)
             ks == {k \in 1..w : LazyTopicLen(str, q + k) > 0}
         IN IF ks = {} THEN NoMatch
            ELSE LET k == CHOOSE x \in ks : \A y \in ks : y <= x
                     ts == q + k
                 IN [found |-> TRUE, phrase |-> SubSeq(str, ps, q - 1),
                     topic |-> SubSeq(str, ts, ts + LazyTopicLen(str, ts) - 1)]

\* One alternative, (?:^|[.\s])(lit)\s+(.+?)(?:[.?!]|$), tried from position
\* i: ^ first (the start of the text only), then one preceding character
AltMatchAtStartOnlyMutant(str, i, lit) ==
    IF i = 1 THEN PhraseTopicAt(str, i, lit) ELSE NoMatch
AltMatchAt(str, i, lit) ==
    LET atStart == IF i = 1 THEN PhraseTopicAt(str, i, lit) ELSE NoMatch
    IN IF atStart.found THEN atStart
       ELSE IF i <= Len(str) /\ str[i] \in Precede
              THEN PhraseTopicAt(str, i + 1, lit)
              ELSE NoMatch

\* a search that prefers the first alternative that matches anywhere to the
\* leftmost position
SearchResearchFirstDeclaredMutant(str, lits) ==
    LET hits == {h \in (1..(Len(str) + 1)) \X (1..Len(lits)) :
                    AltMatchAt(str, h[1], lits[h[2]]).found}
    IN IF hits = {} THEN NoMatch
       ELSE LET h == CHOOSE x \in hits : \A y \in hits :
                        x[2] < y[2] \/ (x[2] = y[2] /\ x[1] <= y[1])
            IN AltMatchAt(str, h[1], lits[h[2]])

\* re.search of the alternation of lits: the leftmost position at which an
\* alternative matches, and at that position the first alternative that does
SearchResearch(str, lits) ==
    LET hits == {h \in (1..(Len(str) + 1)) \X (1..Len(lits)) :
                    AltMatchAt(str, h[1], lits[h[2]]).found}
    IN IF hits = {} THEN NoMatch
       ELSE LET h == CHOOSE x \in hits : \A y \in hits :
                        x[1] < y[1] \/ (x[1] = y[1] /\ x[2] <= y[2])
            IN AltMatchAt(str, h[1], lits[h[2]])

\* the phrases of the texts and configurations of SpecOrder: one is the
\* beginning of the other
WhatIs == <<"w", "h", "a", "t", " ", "i", "s">>
WhatIsA == <<"w", "h", "a", "t", " ", "i", "s", " ", "a">>

\* re.search of the alternation of the plain phrases lits; match.group()
SearchPlain(str, lits) ==
    LET hits == {h \in (1..(Len(str) + 1)) \X (1..Len(lits)) :
                    MatchesAt(str, h[1], lits[h[2]])}
    IN IF hits = {} THEN NoMatch
       ELSE LET h == CHOOSE x \in hits : \A y \in hits :
                        x[1] < y[1] \/ (x[1] = y[1] /\ x[2] <= y[2])
            IN [found |-> TRUE, phrase |-> lits[h[2]], topic |-> << >>]

RECURSIVE StripFillers(_, _)
\* lines 155-158: one pass over the fillers, each tried once, in order
StripFillers(topic, idx) ==
    IF idx > Len(Fillers) THEN topic
    ELSE IF StartsWith(LowerStr(topic), Fillers[idx] \o <<" ">>)
           THEN StripFillers(Strip(SubSeq(topic, Len(Fillers[idx]) + 1, Len(topic))),
                             idx + 1)
           ELSE StripFillers(topic, idx + 1)

RECURSIVE RStripPunctuation(_)
\* line 161: topic.rstrip('.,!?;:')
RStripPunctuation(topic) ==
    IF topic # << >> /\ topic[Len(topic)] \in TrailingPunctuation
      THEN RStripPunctuation(SubSeq(topic, 1, Len(topic) - 1)) ELSE topic

\* lines 164-165: topic[0].upper() + topic[1:]
CapitalizeNotMutant(topic) == topic
Capitalize(topic) ==
    IF topic = << >> THEN topic ELSE <<Upper(Head(topic))>> \o Tail(topic)

\* _clean_topic, lines 147-167
CleanTopic(topic) == Capitalize(RStripPunctuation(StripFillers(Strip(topic), 1)))

\* _compile_patterns, lines 36-72: per category the lower-cased phrases of its
\* alternation; a category without phrases gets no pattern (the empty sequence)
CompilePatternsCopiedListMutant(cfg) ==
    [research |-> [i \in 1..Len(cfg.research \o cfg.custom) |->
                      LowerStr((cfg.research \o cfg.custom)[i])],
     transcription_start |-> [i \in 1..Len(cfg.transcription_stop) |->
                      LowerStr(cfg.transcription_stop[i])],
     transcription_stop |-> [i \in 1..Len(cfg.transcription_stop) |->
                      LowerStr(cfg.transcription_stop[i])]]
CompilePatterns(cfg) ==
    [research |-> [i \in 1..Len(cfg.research \o cfg.custom) |->
                      LowerStr((cfg.research \o cfg.custom)[i])],
     transcription_start |-> [i \in 1..Len(cfg.transcription_start) |->
                      LowerStr(cfg.transcription_start[i])],
     transcription_stop |-> [i \in 1..Len(cfg.transcription_stop) |->
                      LowerStr(cfg.transcription_stop[i])]]

NoResult == [kind |-> "pending", trigger_type |-> "", trigger_phrase |-> << >>,
             has_topic |-> FALSE, topic |-> << >>, raw_text |-> << >>]
\* detect returned None
NoneResult == [NoResult EXCEPT !.kind = "none"]
\* detect returned TriggerMatch(...); topic None is has_topic FALSE
TriggerMatch(type, phrase, hasTopic, topic, raw) ==
    [kind |-> "match", trigger_type |-> type, trigger_phrase |-> phrase,
     has_topic |-> hasTopic, topic |-> topic, raw_text |-> raw]

\* detect without the test of the cleaned topic at line 109
DetectInNoTopicTestMutant(pats, txt) ==
    IF txt = << >> THEN NoneResult
    ELSE
      LET text_clean == Strip(txt)
          text_lower == LowerStr(text_clean)
          r == IF pats.research # << >>
                 THEN SearchResearch(text_lower, pats.research) ELSE NoMatch
          cleaned == CleanTopic(r.topic)
          st == IF pats.transcription_start # << >>
                  THEN SearchPlain(text_lower, pats.transcription_start) ELSE NoMatch
          sp == IF pats.transcription_stop # << >>
                  THEN SearchPlain(text_lower, pats.transcription_stop) ELSE NoMatch
      IN IF r.found /\ r.phrase # << >> /\ r.topic # << >>
           THEN TriggerMatch("research", r.phrase, TRUE, cleaned, text_clean)
         ELSE IF st.found
           THEN TriggerMatch("transcription_start", st.phrase, FALSE, << >>, text_clean)
         ELSE IF sp.found
           THEN TriggerMatch("transcription_stop", sp.phrase, FALSE, << >>, text_clean)
         ELSE NoneResult

\* detect, lines 74-145, against the pattern set pats
DetectIn(pats, txt) ==
    IF txt = << >> THEN NoneResult
    ELSE
      LET text_clean == Strip(txt)
          text_lower == LowerStr(text_clean)
          r == IF pats.research # << >>
                 THEN SearchResearch(text_lower, pats.research) ELSE NoMatch
          cleaned == CleanTopic(r.topic)
          st == IF pats.transcription_start # << >>
                  THEN SearchPlain(text_lower, pats.transcription_start) ELSE NoMatch
          sp == IF pats.transcription_stop # << >>
                  THEN SearchPlain(text_lower, pats.transcription_stop) ELSE NoMatch
      IN IF r.found /\ r.phrase # << >> /\ r.topic # << >> /\ cleaned # << >>
           THEN TriggerMatch("research", r.phrase, TRUE, cleaned, text_clean)
         ELSE IF st.found
           THEN TriggerMatch("transcription_start", st.phrase, FALSE, << >>, text_clean)
         ELSE IF sp.found
           THEN TriggerMatch("transcription_stop", sp.phrase, FALSE, << >>, text_clean)
         ELSE NoneResult

\* DEFAULT_CONFIG["triggers"]
DefaultTriggers ==
    [research |->
      <<<<"d", "i", "d", " ", "y", "o", "u", " ", "s", "a", "y">>,
      <<"w", "h", "a", "t", " ", "i", "s">>,
      <<"t", "e", "l", "l", " ", "m", "e", " ", "a", "b", "o", "u", "t">>,
      <<"l", "o", "o", "k", " ", "u", "p">>,
      <<"s", "e", "a", "r", "c", "h", " ", "f", "o", "r">>>>,
     transcription_start |->
      <<<<"c", "a", "n", " ", "y", "o", "u", " ", "r", "e", "p", "e", "a", "t", " ", "t", "h", "a", "t">>,
      <<"l", "e", "t", " ", "m", "e", " ", "n", "o", "t", "e", " ", "t", "h", "a", "t", " ", "d", "o", "w", "n">>,
      <<"t", "h", "a", "t", "'", "s", " ", "i", "m", "p", "o", "r", "t", "a", "n", "t">>>>,
     transcription_stop |->
      <<<<"t", "h", "a", "n", "k", " ", "y", "o", "u">>,
      <<"t", "h", "a", "t", " ", "h", "e", "l", "p", "s">>,
      <<"g", "o", "t", " ", "i", "t">>,
      <<"e", "n", "d", " ", "n", "o", "t", "e">>,
      <<"s", "t", "o", "p", " ", "r", "e", "c", "o", "r", "d", "i", "n", "g">>>>,
     custom |-> << >>]
\* phrases handed to add_custom_trigger
CustomPhrases ==
    {<<"S", "I", "E", "M">>,
    <<"s", "i", "e", "m">>}
\* the words the texts handed to detect are made of
Words ==
    {<<"d", "i", "d", " ", "y", "o", "u", " ", "s", "a", "y">>,
    <<"W", "h", "a", "t", " ", "i", "s">>,
    <<"k", "u", "b", "e", "r", "n", "e", "t", "e", "s">>,
    <<"S", "I", "E", "M">>,
    <<"u", "m">>,
    << >>,
    <<"?">>,
    <<"e", "n", "d", " ", "n", "o", "t", "e">>,
    <<"t", "h", "a", "t", "'", "s", " ", "i", "m", "p", "o", "r", "t", "a", "n", "t">>}
RECURSIVE Join(_)
\* " ".join(words)
Join(words) ==
    IF words = << >> THEN << >>
    ELSE IF Len(words) = 1 THEN Head(words)
    ELSE Head(words) \o <<" ">> \o Join(Tail(words))
Texts == {Join(words) : words \in UNION {[1..n -> Words] : n \in 0..MaxWords}}

\* ------------------------------------------------------------------- state
VARIABLES
    recording,        \* self._recording
    audio_buffer,     \* self._audio_buffer
    start_time,       \* self._start_time
    trigger,          \* self._trigger
    silence_start,    \* self._silence_start
    on_complete,      \* self._on_complete
    lock,             \* self._lock: the thread holding it, or NoThread
    now,              \* the wall clock
    pc,               \* per thread: where it stands in the method it called
    arg,              \* per thread: the call in flight
    ret,              \* per thread: what its last call returned
    sessions,         \* history: start_recording calls that returned True
    emitted,          \* history: segments returned for the current session
    appended,         \* history: chunks appended in the current session
    completeCalls,    \* history: on_complete invocations in the current session
    runStart,         \* history: arrival time of the first chunk of the
                      \*   current uninterrupted run of silent chunks
    in_speech,        \* AudioCapture._in_speech
    speech_buffer,    \* AudioCapture._speech_buffer
    silence_chunks,   \* AudioCapture._silence_chunks
    utterances,       \* history: calls of the on_audio callback
    lastUtterance,    \* history: the audio of the last call, as its frames
    fed,              \* history: the frames given to _process_chunk so far
    triggers,         \* TriggerDetector.triggers
    patterns,         \* TriggerDetector._patterns
    trigPc,           \* where the caller of detect stands
    text,             \* the text of the detect call in flight
    result,           \* what that call returned
    compPc,           \* where a caller of _compile_patterns stands
    providers,        \* ResearchEngine._providers: the initialised names
    default_provider, \* ResearchEngine._default_provider
    resPc,            \* where the caller of research stands
    resArg,           \* the research call in flight
    resStart,         \* OpenAIProvider.research: start_time
    resResult,        \* what the research call returned
    providerCalls,    \* history: the client calls of the research call in
                      \* flight, each with its outcome and the time it ended
    processing,       \* AudioProcessor._processing
    capPc,            \* where the capture thread stands
    audio_data,       \* the utterance on_audio was called with
    match,            \* on_audio: what detect returned
    handled,          \* history: utterances on_audio was called with
    running,          \* AudioCapture._running
    paused,           \* AudioCapture._paused
    stream,           \* AudioCapture._stream and the state of the stream
    pyaudio,          \* AudioCapture._pyaudio and the state of the handle
    loopPc,           \* where the capture thread stands in _capture_loop
    cleanPc,          \* where each thread stands inside _cleanup
    mainPc,           \* where the main thread stands
    pipeHist          \* history: loud is the number of speech frames read,
                      \* oddReads whether the number of frames read is odd,
                      \* unread the number of frames the input stream holds
                      \* that arrived while the thread was inside on_audio,
                      \* segmentedWhileRecording whether _process_chunk has
                      \* segmented a frame read during a recording session;
                      \* heard is the text and confidence the recognizer
                      \* returned to the on_audio call in progress

recData == <<recording, audio_buffer, start_time, trigger, silence_start,
             on_complete>>
recVars == <<recData, lock, now>>
callVars == <<pc, arg, ret>>
histVars == <<sessions, emitted, appended, completeCalls, runStart>>
vadVars == <<in_speech, speech_buffer, silence_chunks, utterances,
             lastUtterance, fed>>
trigVars == <<triggers, patterns, trigPc, text, result, compPc>>
resVars == <<providers, default_provider, resPc, resArg, resStart, resResult,
             providerCalls>>
pipeVars == <<processing, capPc, audio_data, match, handled, pipeHist>>
capVars == <<running, paused, stream, pyaudio, loopPc, cleanPc, mainPc>>
vars == <<recVars, callVars, histVars, vadVars, trigVars, resVars, pipeVars,
          capVars>>

\* A call in flight: the method, its arguments, the session that was active
\* when the call was made (sid, 0 if none), what the caller's previous call was
\* and returned (prev), and the auto-stop decision the call has taken on its
\* way (autostop: "cap", "silence" or "no").
NoArg == [op |-> "none", chunk |-> [n |-> 0, e |-> 0],
          start |-> [trigger |-> NoTrigger, cb |-> NoCallback],
          sid |-> 0, prev |-> <<"none", "none">>, autostop |-> "no"]
NoSegment == [trigger |-> NoTrigger, start_time |-> NoTime, audio |-> << >>, samples |-> 0]
\* What a thread's last call returned, until the thread makes its next call:
\* kind is "bool" (with val), "none", "segment" (with seg) or "error" (the
\* call raised).
NoRet == [op |-> "none", kind |-> "none", val |-> FALSE, seg |-> NoSegment,
          sid |-> 0, prev |-> <<"none", "none">>, autostop |-> "no"]

\* A segment as _stop_and_get_segment / stop_recording build it: audio is the
\* concatenation of the buffer, samples is len(audio_data), and
\* duration_seconds is samples / SampleRate. (end_time, a datetime.now() that
\* nothing reads, is left out.)
MakeSegment ==
    [trigger |-> trigger, start_time |-> start_time,
     audio |-> audio_buffer, samples |-> TotalSamples(audio_buffer)]

\* AudioCapture.__init__, lines 45-48
VadInit ==
    /\ in_speech = FALSE
    /\ speech_buffer = << >>
    /\ silence_chunks = 0
    /\ utterances = 0
    /\ lastUtterance = << >>
    /\ fed = << >>

\* TranscriptionRecorder.__init__, lines 38-46
RecorderInit ==
    /\ recording = FALSE
    /\ audio_buffer = << >>
    /\ start_time = NoTime
    /\ trigger = NoTrigger
    /\ silence_start = NoTime
    /\ on_complete = NoCallback
    /\ lock = NoThread
    /\ now = 0
    /\ pc = [t \in Threads |-> "idle"]
    /\ arg = [t \in Threads |-> NoArg]
    /\ ret = [t \in Threads |-> NoRet]
    /\ sessions = 0
    /\ emitted = 0
    /\ appended = 0
    /\ completeCalls = 0
    /\ runStart = NoTime

\* TriggerDetector.__init__, lines 33-34
DetectorInit ==
    /\ triggers = DefaultTriggers
    /\ patterns = CompilePatterns(DefaultTriggers)
    /\ trigPc = "idle"
    /\ text = << >>
    /\ result = NoResult
    /\ compPc = "idle"

\* -------------------------------------------------------- ResearchEngine
\* research_config.get('timeout_seconds', 15), in the model's seconds
TimeoutSeconds == 2
\* int((time.time() - start_time) * 1000)
MsPerSecond == 1000

\* Python's None where a provider name is expected
NoProvider == "None"
\* the only provider _init_providers knows, and the names a configuration or a
\* caller may give
KnownProviders == {"openai"}
ProviderNames == {"openai", "deepseek"}
\* the settings _init_providers reads: api.openai.enabled and
\* research.default_provider
EngineSettings == [enabled : BOOLEAN, default_provider : ProviderNames \cup {NoProvider}]
ResearchEntries == {"research", "research_sync"}
ResearchArgs == [entry : ResearchEntries, provider : ProviderNames \cup {NoProvider}]
NoResearchArg == [entry |-> "none", provider |-> NoProvider]

\* ResearchResult.error of a result without error
NoError == "error=None"
\* what a research call hands to its caller: nothing yet (kind "pending") or
\* a ResearchResult (kind "result"); both except clauses of the provider
\* return one, so no exception of the client call leaves research
NoResearchResult == [kind |-> "pending", provider |-> "", latency_ms |-> 0,
                     success |-> FALSE, error |-> NoError, summary |-> ""]
ResearchResult(provider, summary, latency_ms, success, error) ==
    [kind |-> "result", provider |-> provider, latency_ms |-> latency_ms,
     success |-> success, error |-> error, summary |-> summary]

\* How self._client.chat.completions.create(**kwargs) ends.  A response has
\* a message with content, a message without content, or no choices at all;
\* an exception has a type and the text str(e) gives.  The client is given
\* timeout=self.timeout_seconds: when no answer came within that time it raises
\* its timeout error (openai.APITimeoutError, "Request timed out.") or lets
\* asyncio.TimeoutError through, whose str() is empty.
Response(type) == [kind |-> "response", type |-> type, message |-> ""]
Exception(type, message) == [kind |-> "exception", type |-> type, message |-> message]
Responses == {Response("content"), Response("no_content"), Response("no_choices")}
TimeoutExceptions ==
    {Exception("asyncio.TimeoutError", ""),
     Exception("openai.APITimeoutError", "Request timed out.")}
OtherExceptions ==
    {Exception("openai.APIConnectionError", "Connection error."),
     Exception("openai.AuthenticationError", "Error code: 401"),
     Exception("Exception", "")}
Pending == [kind |-> "pending", type |-> "", message |-> ""]

\* provider_name = provider or self._default_provider
ProviderNameDefaultOnlyMutant(provider, default) == default
ProviderName(provider, default) ==
    IF provider = NoProvider THEN default ELSE provider

\* error=f"No provider available (requested: {provider_name})"
NoProviderError(provider_name) ==
    "No provider available (requested: " \o provider_name \o ")"

\* latency_ms = int((time.time() - start_time) * 1000)
LatencyMsZeroMutant(start, t) == 0
LatencyMs(start, t) == (t - start) * MsPerSecond

\* the except clauses of OpenAIProvider.research: asyncio.TimeoutError has
\* its own text, every other Exception reports str(e)
ErrorOfStrMutant(exc) == exc.message
ErrorOf(exc) ==
    IF exc.type = "asyncio.TimeoutError" THEN "Request timed out" ELSE exc.message

\* What OpenAIProvider.research returns when the client call ended with
\* outcome o at time t, having started at time start.  response.choices[0]
\* of a response without choices raises IndexError inside the try block.
ProviderResult(o, start, t) ==
    LET latency_ms == LatencyMs(start, t)
        failure(exc) == ResearchResult("openai", "", latency_ms, FALSE, ErrorOf(exc))
    IN  IF o.kind = "exception" THEN failure(o)
        ELSE IF o.type = "no_choices"
          THEN failure(Exception("IndexError", "list index out of range"))
        ELSE ResearchResult("openai", IF o.type = "content" THEN "summary" ELSE "",
                            latency_ms, TRUE, NoError)

\* the threads that run AudioCapture._cleanup: the capture thread at the end
\* of _capture_loop and the thread that calls stop
CleanupThreads == {"capture", "main"}

\* AudioProcessor.__init__, line 63; the capture thread has not read a frame
PipeInit ==
    /\ processing = FALSE
    /\ capPc = "read"
    /\ audio_data = << >>
    /\ match = NoResult
    /\ handled = 0
    /\ pipeHist = [loud |-> 0, oddReads |-> FALSE, unread |-> 0,
                    segmentedWhileRecording |-> FALSE, heard |-> NotTranscribed]

\* ResearchEngine.__init__, lines 22-23, before _init_providers has run
ResearchInit ==
    /\ providers = {}
    /\ default_provider = NoProvider
    /\ resPc = "new"
    /\ resArg = NoResearchArg
    /\ resStart = NoTime
    /\ resResult = NoResearchResult
    /\ providerCalls = << >>

\* AudioCapture.__init__, lines 34-43, and MeetingAssistant before run
CaptureInit ==
    /\ running = FALSE
    /\ paused = FALSE
    /\ stream = "none"
    /\ pyaudio = "none"
    /\ loopPc = "unstarted"
    /\ cleanPc = [t \in CleanupThreads |-> "out"]
    /\ mainPc = "init"

Init ==
    /\ RecorderInit /\ VadInit /\ DetectorInit /\ ResearchInit /\ PipeInit
    /\ CaptureInit

\* ------------------------------------------------------------ return values
RetOf(t, kind, val, seg) ==
    [op |-> arg[t].op, kind |-> kind, val |-> val, seg |-> seg,
     sid |-> arg[t].sid, prev |-> arg[t].prev, autostop |-> arg[t].autostop]
BoolRet(t, b) == RetOf(t, "bool", b, NoSegment)
NoneRet(t) == RetOf(t, "none", FALSE, NoSegment)
SegRet(t, seg) == RetOf(t, "segment", FALSE, seg)
\* np.concatenate([]) raises ValueError: the call ends with an exception
ErrRet(t) == RetOf(t, "error", FALSE, NoSegment)

\* Leaving the "with self._lock:" block with value val.
Done(t, val) ==
    /\ pc' = [pc EXCEPT ![t] = "idle"]
    /\ arg' = [arg EXCEPT ![t] = NoArg]
    /\ ret' = [ret EXCEPT ![t] = val]
    /\ lock' = NoThread

Goto(t, label) ==
    /\ pc' = [pc EXCEPT ![t] = label]
    /\ UNCHANGED <<ret, lock>>


\* ------------------------------------------------------------------- calls
CurrentSid == IF recording THEN sessions ELSE 0

Call(t, a) ==
    /\ pc[t] = "idle"
    /\ pc' = [pc EXCEPT ![t] = "wait"]
    /\ arg' = [arg EXCEPT ![t] = [a EXCEPT !.sid = CurrentSid,
                                          !.prev = <<ret[t].op, ret[t].kind>>]]
    /\ ret' = [ret EXCEPT ![t] = NoRet]
    /\ UNCHANGED <<recVars, histVars, vadVars, trigVars, resVars, capVars>>

CallStart(t, limit) ==
    /\ sessions < limit
    /\ \E sa \in StartArgs : Call(t, [NoArg EXCEPT !.op = "start", !.start = sa])
    /\ UNCHANGED <<pipeVars, capVars>>

CallStop(t) == Call(t, [NoArg EXCEPT !.op = "stop"]) /\ UNCHANGED <<pipeVars, capVars>>

CallAdd(t, chunks) ==
    /\ \E c \in chunks : Call(t, [NoArg EXCEPT !.op = "add", !.chunk = c])
    /\ UNCHANGED <<pipeVars, capVars>>

\* "with self._lock:" -- threading.Lock is free or held by one thread
CanAcquireUnlocked(t) == TRUE
CanAcquire(t) == lock = NoThread

Acquire(t) ==
    /\ pc[t] = "wait"
    /\ CanAcquire(t)
    /\ lock' = t
    /\ pc' = [pc EXCEPT ![t] = CASE arg[t].op = "start" -> "start_check"
                                  [] arg[t].op = "stop" -> "stop_check"
                                  [] OTHER -> "add_check"]
    /\ UNCHANGED <<recData, now, arg, ret, histVars, vadVars, trigVars, resVars, pipeVars,
                   capVars>>

\* --------------------------------------------------------- start_recording
\* line 51: if self._recording
AlreadyRecordingNeverMutant == FALSE
AlreadyRecording == recording

\* lines 51-53
StartCheck(t) ==
    /\ pc[t] = "start_check"
    /\ IF AlreadyRecording
         THEN Done(t, BoolRet(t, FALSE))
         ELSE Goto(t, "start_set") /\ UNCHANGED arg
    /\ UNCHANGED <<recData, now, histVars, vadVars, trigVars, resVars, pipeVars, capVars>>

\* lines 55-63
StartSet(t) ==
    /\ pc[t] = "start_set"
    /\ recording' = TRUE
    /\ audio_buffer' = << >>
    /\ start_time' = now
    /\ trigger' = arg[t].start.trigger
    /\ silence_start' = NoTime
    /\ on_complete' = arg[t].start.cb
    /\ sessions' = sessions + 1
    /\ emitted' = 0
    /\ appended' = 0
    /\ completeCalls' = 0
    /\ runStart' = NoTime
    /\ Done(t, BoolRet(t, TRUE))
    /\ UNCHANGED <<now, vadVars, trigVars, resVars, pipeVars, capVars>>

\* ---------------------------------------------------------- stop_recording
\* lines 68-69
StopCheck(t) ==
    /\ pc[t] = "stop_check"
    /\ IF ~recording
         THEN Done(t, NoneRet(t))
         ELSE Goto(t, "stop_set") /\ UNCHANGED arg
    /\ UNCHANGED <<recData, now, histVars, vadVars, trigVars, resVars, pipeVars, capVars>>

\* lines 74 and 146: if not self._audio_buffer
NoAudioCapturedNeverMutant(buf) == FALSE
NoAudioCaptured(buf) == buf = << >>

\* lines 71-76
StopSet(t) ==
    /\ pc[t] = "stop_set"
    /\ recording' = FALSE
    /\ IF NoAudioCaptured(audio_buffer)
         THEN Done(t, NoneRet(t))
         ELSE Goto(t, "stop_build") /\ UNCHANGED arg
    /\ UNCHANGED <<audio_buffer, start_time, trigger, silence_start, on_complete,
                   now, histVars, vadVars, trigVars, resVars, pipeVars,
                   capVars>>

\* lines 79-96
StopBuildCallsBackMutant(t) ==
    /\ pc[t] = "stop_build"
    /\ IF audio_buffer = << >>
         THEN Done(t, ErrRet(t)) /\ UNCHANGED <<emitted, start_time, completeCalls>>
         ELSE /\ Done(t, SegRet(t, MakeSegment))
              /\ emitted' = emitted + 1
              /\ start_time' = NoTime
              /\ completeCalls' = IF on_complete # NoCallback
                                    THEN completeCalls + 1 ELSE completeCalls
    /\ audio_buffer' = << >>
    /\ UNCHANGED <<recording, trigger, silence_start, on_complete, now,
                   sessions, appended, runStart, vadVars, trigVars, resVars, pipeVars,
                   capVars>>

StopBuild(t) ==
    /\ pc[t] = "stop_build"
    /\ IF audio_buffer = << >>
         THEN Done(t, ErrRet(t)) /\ UNCHANGED <<emitted, start_time>>
         ELSE /\ Done(t, SegRet(t, MakeSegment))
              /\ emitted' = emitted + 1
              /\ start_time' = NoTime
    /\ audio_buffer' = << >>
    /\ UNCHANGED <<recording, trigger, silence_start, on_complete, now,
                   sessions, appended, completeCalls, runStart, vadVars, trigVars, resVars, pipeVars,
                   capVars>>

\* --------------------------------------------------------------- add_audio
\* lines 104-105
AddCheck(t) ==
    /\ pc[t] = "add_check"
    /\ IF ~recording
         THEN Done(t, NoneRet(t))
         ELSE Goto(t, "add_append") /\ UNCHANGED arg
    /\ UNCHANGED <<recData, now, histVars, vadVars, trigVars, resVars, pipeVars, capVars>>

\* The silence-run timer after a chunk that did not end the session
\* (lines 124-134): started by the first silent chunk, kept by the next ones,
\* set back to inactive by a chunk that is not silent.
NextSilenceStartKeepMutant(chunk) ==
    IF IsSilence(chunk) /\ silence_start = NoTime THEN now ELSE silence_start
NextSilenceStart(chunk) ==
    IF IsSilence(chunk)
      THEN IF silence_start = NoTime THEN now ELSE silence_start
      ELSE NoTime

\* The auto-stop decision of lines 113 and 124-127 on the buffer with the
\* chunk appended: the duration cap is looked at first.
AutoStopSilenceFirstMutant(buf, chunk) ==
    IF IsSilence(chunk) /\ silence_start # NoTime /\ SilenceElapsed(silence_start, now)
      THEN "silence"
      ELSE IF DurationReached(buf) THEN "cap" ELSE "no"
AutoStopDecision(buf, chunk) ==
    IF DurationReached(buf) THEN "cap"
    ELSE IF IsSilence(chunk) /\ silence_start # NoTime
              /\ SilenceElapsed(silence_start, now)
           THEN "silence"
           ELSE "no"

\* add_audio with the chunk put in front of the buffer
AddAppendInFrontMutant(t) ==
    /\ pc[t] = "add_append"
    /\ LET chunk == arg[t].chunk
           buf == <<chunk>> \o audio_buffer
           decision == AutoStopDecision(buf, chunk)
       IN /\ audio_buffer' = buf
          /\ appended' = appended + 1
          /\ runStart' = IF IsSilence(chunk)
                            THEN IF runStart = NoTime THEN now ELSE runStart
                            ELSE NoTime
          /\ IF decision # "no"
               THEN /\ Goto(t, "fin_check")
                    /\ arg' = [arg EXCEPT ![t].autostop = decision]
                    /\ UNCHANGED silence_start
               ELSE /\ silence_start' = NextSilenceStart(chunk)
                    /\ Done(t, NoneRet(t))
    /\ UNCHANGED <<recording, start_time, trigger, on_complete, now,
                   sessions, emitted, completeCalls, vadVars, trigVars, resVars, pipeVars,
                   capVars>>

\* lines 107-136, up to the call of _stop_and_get_segment
AddAppend(t) ==
    /\ pc[t] = "add_append"
    /\ LET chunk == arg[t].chunk
           buf == Append(audio_buffer, chunk)
           decision == AutoStopDecision(buf, chunk)
       IN /\ audio_buffer' = buf
          /\ appended' = appended + 1
          /\ runStart' = IF IsSilence(chunk)
                            THEN IF runStart = NoTime THEN now ELSE runStart
                            ELSE NoTime
          /\ IF decision # "no"
               THEN /\ Goto(t, "fin_check")
                    /\ arg' = [arg EXCEPT ![t].autostop = decision]
                    /\ UNCHANGED silence_start
               ELSE /\ silence_start' = NextSilenceStart(chunk)
                    /\ Done(t, NoneRet(t))
    /\ UNCHANGED <<recording, start_time, trigger, on_complete, now,
                   sessions, emitted, completeCalls, vadVars, trigVars, resVars, pipeVars,
                   capVars>>

\* _stop_and_get_segment, lines 140-141
FinCheck(t) ==
    /\ pc[t] = "fin_check"
    /\ IF ~recording
         THEN Done(t, NoneRet(t))
         ELSE Goto(t, "fin_set") /\ UNCHANGED arg
    /\ UNCHANGED <<recData, now, histVars, vadVars, trigVars, resVars, pipeVars, capVars>>

\* _stop_and_get_segment, lines 143-147
FinSet(t) ==
    /\ pc[t] = "fin_set"
    /\ recording' = FALSE
    /\ IF NoAudioCaptured(audio_buffer)
         THEN Done(t, NoneRet(t))
         ELSE Goto(t, "fin_build") /\ UNCHANGED arg
    /\ UNCHANGED <<audio_buffer, start_time, trigger, silence_start, on_complete,
                   now, histVars, vadVars, trigVars, resVars, pipeVars,
                   capVars>>

\* _stop_and_get_segment without line 160
FinBuildKeepsBufferMutant(t) ==
    /\ pc[t] = "fin_build"
    /\ IF audio_buffer = << >>
         THEN Done(t, ErrRet(t)) /\ UNCHANGED <<emitted, start_time, completeCalls>>
         ELSE /\ Done(t, SegRet(t, MakeSegment))
              /\ emitted' = emitted + 1
              /\ start_time' = NoTime
              /\ completeCalls' = IF on_complete # NoCallback
                                    THEN completeCalls + 1 ELSE completeCalls
    /\ UNCHANGED <<recording, audio_buffer, trigger, silence_start, on_complete, now,
                   sessions, appended, runStart, vadVars, trigVars, resVars, pipeVars,
                   capVars>>

\* _stop_and_get_segment, lines 149-163, then add_audio's lines 116-118 or
\* 130-132: the callback runs before the lock is released
FinBuild(t) ==
    /\ pc[t] = "fin_build"
    /\ IF audio_buffer = << >>
         THEN Done(t, ErrRet(t)) /\ UNCHANGED <<emitted, start_time, completeCalls>>
         ELSE /\ Done(t, SegRet(t, MakeSegment))
              /\ emitted' = emitted + 1
              /\ start_time' = NoTime
              /\ completeCalls' = IF on_complete # NoCallback
                                    THEN completeCalls + 1 ELSE completeCalls
    /\ audio_buffer' = << >>
    /\ UNCHANGED <<recording, trigger, silence_start, on_complete, now,
                   sessions, appended, runStart, vadVars, trigVars, resVars, pipeVars,
                   capVars>>

\* ------------------------------------------------------------------- time
Tick(limit) ==
    /\ now < limit
    /\ now' = now + 1
    /\ UNCHANGED <<recData, lock, callVars, histVars, vadVars, trigVars, resVars, pipeVars,
                   capVars>>

\* The steps a thread takes inside a method, once it has called it.
Inside(t) ==
    \/ Acquire(t)
    \/ StartCheck(t)
    \/ StartSet(t)
    \/ StopCheck(t)
    \/ StopSet(t)
    \/ StopBuild(t)
    \/ AddCheck(t)
    \/ AddAppend(t)
    \/ FinCheck(t)
    \/ FinSet(t)
    \/ FinBuild(t)

\* One caller: t1 makes every call.
Next ==
    \/ CallStart("t1", MaxSessions)
    \/ CallStop("t1")
    \/ CallAdd("t1", Chunks)
    \/ Inside("t1")
    \/ Tick(MaxTime)

Spec == Init /\ [][Next]_vars

\* Two callers: t1 is the capture thread, whose on_audio calls add_audio and
\* start_recording; t2 is a control thread that starts and stops.
NextThreads ==
    \/ CallStart("t1", MaxSessionsThreads)
    \/ CallAdd("t1", ChunksThreads)
    \/ CallStart("t2", MaxSessionsThreads)
    \/ CallStop("t2")
    \/ \E t \in Threads : Inside(t)
    \/ Tick(MaxTimeThreads)

SpecThreads == Init /\ [][NextThreads]_vars

\* ------------------------------------------------ AudioCapture._process_chunk
\* energy = sqrt(mean(audio ** 2)); is_speech = energy > vad_threshold * 0.01
IsSpeechAtThresholdMutant(frame) == frame.e >= SpeechThreshold
IsSpeech(frame) == frame.e > SpeechThreshold

\* line 158: len(self._speech_buffer) >= self._speech_start_chunks
SpeechStarts(buf) == Len(buf) >= SpeechStartChunks

\* line 166: self._silence_chunks >= self._silence_end_chunks
SpeechEndsLateMutant(n) == n > SilenceEndChunks
SpeechEnds(n) == n >= SilenceEndChunks

\* lines 178-180: append, then drop the oldest frame beyond the context window
KeepContextWideMutant(buf, frame) ==
    LET b == Append(buf, frame)
    IN IF Len(b) > ContextChunks + 1 THEN Tail(b) ELSE b
KeepContext(buf, frame) ==
    LET b == Append(buf, frame)
    IN IF Len(b) > ContextChunks THEN Tail(b) ELSE b

\* _process_chunk without line 155: a speech frame leaves the silence counter
SegmentationKeepsSilenceCountMutant(frame) ==
    /\ IF IsSpeech(frame)
         THEN /\ speech_buffer' = Append(speech_buffer, frame)
              /\ in_speech' = (in_speech \/ SpeechStarts(speech_buffer'))
              /\ UNCHANGED <<silence_chunks, utterances, lastUtterance>>
         ELSE IF in_speech
           THEN IF SpeechEnds(silence_chunks + 1)
                  THEN /\ utterances' = utterances + 1
                       /\ lastUtterance' = Append(speech_buffer, frame)
                       /\ speech_buffer' = << >>
                       /\ in_speech' = FALSE
                       /\ silence_chunks' = 0
                  ELSE /\ silence_chunks' = silence_chunks + 1
                       /\ speech_buffer' = Append(speech_buffer, frame)
                       /\ UNCHANGED <<in_speech, utterances, lastUtterance>>
           ELSE /\ speech_buffer' = KeepContext(speech_buffer, frame)
                /\ UNCHANGED <<in_speech, silence_chunks, utterances, lastUtterance>>

\* _process_chunk, lines 148-180, on one frame: what it does to the VAD state;
\* self._on_audio is set (start() sets it before the capture thread runs).
Segmentation(frame) ==
    /\ IF IsSpeech(frame)
         THEN /\ silence_chunks' = 0
              /\ speech_buffer' = Append(speech_buffer, frame)
              /\ in_speech' = (in_speech \/ SpeechStarts(speech_buffer'))
              /\ UNCHANGED <<utterances, lastUtterance>>
         ELSE IF in_speech
           THEN IF SpeechEnds(silence_chunks + 1)
                  THEN /\ utterances' = utterances + 1
                       /\ lastUtterance' = Append(speech_buffer, frame)
                       /\ speech_buffer' = << >>
                       /\ in_speech' = FALSE
                       /\ silence_chunks' = 0
                  ELSE /\ silence_chunks' = silence_chunks + 1
                       /\ speech_buffer' = Append(speech_buffer, frame)
                       /\ UNCHANGED <<in_speech, utterances, lastUtterance>>
           ELSE /\ speech_buffer' = KeepContext(speech_buffer, frame)
                /\ UNCHANGED <<in_speech, silence_chunks, utterances, lastUtterance>>

\* _process_chunk on one frame, with the frame recorded in the history
ProcessChunk(frame) ==
    /\ fed' = Append(fed, frame)
    /\ Segmentation(frame)
    /\ UNCHANGED <<recVars, callVars, histVars, trigVars, resVars, capVars>>

\* The capture loop hands _process_chunk one frame after the other.
NextVad ==
    /\ Len(fed) < MaxFrames
    /\ \E frame \in VadFrames : ProcessChunk(frame)
    /\ UNCHANGED <<pipeVars, capVars>>

SpecVad == Init /\ [][NextVad]_vars

\* ------------------------------------------------------------ trigger detector
\* add_custom_trigger, lines 174-180
AddCustomTrigger(phrase) ==
    /\ trigPc = "idle"
    /\ \A i \in 1..Len(triggers.custom) :
          LowerStr(triggers.custom[i]) # LowerStr(phrase)
    /\ triggers' = [triggers EXCEPT !.custom = Append(@, phrase)]
    /\ patterns' = CompilePatterns(triggers')
    /\ UNCHANGED <<trigPc, text, result, compPc, recVars, callVars, histVars, vadVars, resVars, pipeVars,
                   capVars>>

\* a caller hands one of texts to detect
DetectCall(texts) ==
    /\ trigPc = "idle"
    /\ \E txt \in texts : text' = txt
    /\ trigPc' = "detect"
    /\ result' = NoResult
    /\ UNCHANGED <<triggers, patterns, compPc, recVars, callVars, histVars, vadVars, resVars, pipeVars,
                   capVars>>

\* detect, lines 74-145
Detect ==
    /\ trigPc = "detect"
    /\ result' = DetectIn(patterns, text)
    /\ trigPc' = "returned"
    /\ UNCHANGED <<triggers, patterns, compPc, text, recVars, callVars, histVars, vadVars, resVars, pipeVars,
                   capVars>>

\* the caller has used the result
DetectDone ==
    /\ trigPc = "returned"
    /\ trigPc' = "idle"
    /\ text' = << >>
    /\ result' = NoResult
    /\ UNCHANGED <<triggers, patterns, compPc, recVars, callVars, histVars, vadVars, resVars, pipeVars,
                   capVars>>

NextTrig ==
    \/ \E phrase \in CustomPhrases : AddCustomTrigger(phrase)
    \/ DetectCall(Texts)
    \/ Detect
    \/ DetectDone

SpecTrig == Init /\ [][NextTrig]_vars

\* the words that follow the research phrase in the texts of SpecTopic
TopicWords ==
    {<<"u", "m">>,
    <<"s", "o">>,
    <<"y", "o", "u", " ", "k", "n", "o", "w">>,
    <<"W", "e", "l", "l">>,
    <<"f", "i", "r", "e", "w", "a", "l", "l", "s">>}
\* "tell me about" followed by up to MaxWords words
TopicTexts ==
    {Join(<<DefaultTriggers.research[3]>> \o words) :
        words \in UNION {[1..n -> TopicWords] : n \in 0..MaxWords}}

NextTopic ==
    \/ \E phrase \in CustomPhrases : AddCustomTrigger(phrase)
    \/ DetectCall(TopicTexts)
    \/ Detect
    \/ DetectDone

SpecTopic == Init /\ [][NextTopic]_vars

\* the configurations handed to update_triggers: each category either as in
\* the defaults or without phrases (self.triggers.get(key, []) reads a
\* missing list as an empty one)
TriggerConfigs ==
    {[research |-> r, transcription_start |-> s, transcription_stop |-> p,
      custom |-> << >>] :
        r \in {DefaultTriggers.research, << >>},
        s \in {DefaultTriggers.transcription_start, << >>},
        p \in {DefaultTriggers.transcription_stop, << >>}}
\* the words of the texts of SpecConfig
ConfigWords ==
    {<<"W", "h", "a", "t", " ", "i", "s">>,
    <<"k", "u", "b", "e", "r", "n", "e", "t", "e", "s">>,
    <<"e", "n", "d", " ", "n", "o", "t", "e">>,
    <<"t", "h", "a", "t", "'", "s", " ", "i", "m", "p", "o", "r", "t", "a", "n", "t">>,
    << >>}
ConfigTexts ==
    {Join(words) : words \in UNION {[1..n -> ConfigWords] : n \in 0..MaxWords}}

\* update_triggers, lines 169-172
UpdateTriggers(configs) ==
    /\ trigPc = "idle"
    /\ \E cfg \in configs : triggers' = cfg
    /\ patterns' = CompilePatterns(triggers')
    /\ UNCHANGED <<trigPc, text, result, compPc, recVars, callVars, histVars, vadVars, resVars, pipeVars,
                   capVars>>

NextConfig ==
    \/ UpdateTriggers(TriggerConfigs)
    \/ DetectCall(ConfigTexts)
    \/ Detect
    \/ DetectDone

SpecConfig == Init /\ [][NextConfig]_vars

\* configurations whose research phrases overlap, in both orders of
\* declaration
OrderConfigs ==
    {[research |-> r, transcription_start |-> << >>, transcription_stop |-> << >>,
      custom |-> c] :
        r \in {<<WhatIs>>, <<WhatIsA>>},
        c \in {<<WhatIs>>, <<WhatIsA>>, << >>}}
\* the words of the texts of SpecOrder
OrderWords == {WhatIs, WhatIsA, <<"s", "i", "e", "m">>}
OrderTexts ==
    {Join(words) : words \in UNION {[1..n -> OrderWords] : n \in 0..MaxWords}}

NextOrder ==
    \/ UpdateTriggers(OrderConfigs)
    \/ DetectCall(OrderTexts)
    \/ Detect
    \/ DetectDone

SpecOrder == Init /\ [][NextOrder]_vars

\* -------------------------------------------------------- ResearchEngine
\* _init_providers without the fallback of lines 56-58
EngineInitKeepsDefaultMutant(settings) ==
    /\ resPc = "new"
    /\ providers' = IF settings.enabled THEN KnownProviders ELSE {}
    /\ default_provider' = settings.default_provider
    /\ resPc' = "idle"
    /\ UNCHANGED <<resArg, resStart, resResult, providerCalls,
                   recVars, callVars, histVars, vadVars, trigVars, pipeVars,
                   capVars>>

\* _init_providers: the enabled providers and the default provider
EngineInit(settings) ==
    /\ resPc = "new"
    /\ providers' = IF settings.enabled THEN KnownProviders ELSE {}
    /\ default_provider' =
         IF settings.default_provider \notin providers' /\ providers' # {}
           THEN CHOOSE p \in providers' : TRUE
           ELSE settings.default_provider
    /\ resPc' = "idle"
    /\ UNCHANGED <<resArg, resStart, resResult, providerCalls,
                   recVars, callVars, histVars, vadVars, trigVars, pipeVars,
                   capVars>>

\* A caller enters research or research_sync.  The call is made early enough
\* for the client's timeout to fall inside the modelled time.
ResearchCall(limit) ==
    /\ resPc = "idle"
    /\ now + TimeoutSeconds <= limit
    /\ \E a \in ResearchArgs : resArg' = a
    /\ resPc' = "research"
    /\ resResult' = NoResearchResult
    /\ providerCalls' = << >>
    /\ UNCHANGED <<providers, default_provider, resStart,
                   recVars, callVars, histVars, vadVars, trigVars, pipeVars,
                   capVars>>

\* research hands its result to the caller; research_sync first closes its
\* event loop (finally: loop.close())
Return(res) ==
    /\ resResult' = res
    /\ resPc' = IF resArg.entry = "research_sync" THEN "close" ELSE "returned"

\* ResearchEngine.research, lines 92-110, up to the provider's client call
\* (OpenAIProvider.research, lines 35-71)
ResearchCheck ==
    /\ resPc = "research"
    /\ LET provider_name == ProviderName(resArg.provider, default_provider)
       IN  IF provider_name = NoProvider \/ provider_name \notin providers
             THEN /\ Return(ResearchResult("none", "", 0, FALSE,
                                           NoProviderError(provider_name)))
                  /\ UNCHANGED <<resStart, providerCalls>>
             ELSE /\ resStart' = now
                  /\ providerCalls' = Append(providerCalls, [o |-> Pending, ended |-> NoTime])
                  /\ resPc' = "provider"
                  /\ UNCHANGED resResult
    /\ UNCHANGED <<providers, default_provider, resArg,
                   recVars, callVars, histVars, vadVars, trigVars, pipeVars,
                   capVars>>

\* The client call ends with outcome o and OpenAIProvider.research builds
\* its result (lines 74-111).
ClientCallEnds(o) ==
    /\ providerCalls' = [providerCalls EXCEPT ![Len(providerCalls)] =
                                         [o |-> o, ended |-> now]]
    /\ Return(ProviderResult(o, resStart, now))
    /\ UNCHANGED <<providers, default_provider, resArg, resStart,
                   recVars, callVars, histVars, vadVars, trigVars, pipeVars,
                   capVars>>

\* an answer, or a failure that is no timeout, arrives within the timeout
ProviderAnswers ==
    /\ resPc = "provider"
    /\ now - resStart < TimeoutSeconds
    /\ \E o \in Responses \cup OtherExceptions : ClientCallEnds(o)

\* no answer came within the timeout: the client raises its timeout error
ProviderTimesOut ==
    /\ resPc = "provider"
    /\ now - resStart >= TimeoutSeconds
    /\ \E o \in TimeoutExceptions : ClientCallEnds(o)

\* research_sync, lines 121-122
LoopClose ==
    /\ resPc = "close"
    /\ resPc' = "returned"
    /\ UNCHANGED <<providers, default_provider, resArg, resStart, resResult,
                   providerCalls,
                   recVars, callVars, histVars, vadVars, trigVars, pipeVars,
                   capVars>>

\* the caller has taken the result
ResearchDone ==
    /\ resPc = "returned"
    /\ resPc' = "idle"
    /\ UNCHANGED <<providers, default_provider, resArg, resStart, resResult,
                   providerCalls,
                   recVars, callVars, histVars, vadVars, trigVars, pipeVars,
                   capVars>>

NextResearch ==
    \/ \E settings \in EngineSettings : EngineInit(settings)
    \/ ResearchCall(MaxTime)
    \/ ResearchCheck
    \/ ProviderAnswers
    \/ ProviderTimesOut
    \/ LoopClose
    \/ ResearchDone
    \/ Tick(MaxTime)

SpecResearch == Init /\ [][NextResearch]_vars

\* The event loop runs the coroutine, time passes, and the client enforces the
\* timeout it was given; nothing makes the service answer.
SpecResearchFair ==
    /\ SpecResearch
    /\ WF_vars(ResearchCheck)
    /\ WF_vars(ProviderTimesOut)
    /\ WF_vars(LoopClose)
    /\ WF_vars(Tick(MaxTime))

\* ---------------------------------------------------------- the pipeline
\* MeetingAssistant.run starts the capture with on_audio as its callback
\* (self.audio.start(self.processor.on_audio)): _capture_loop reads a frame,
\* _process_chunk segments it and calls on_audio with each finished utterance,
\* all on the capture thread, which is thread t1 of the recorder's callers.
CaptureThread == "t1"

\* sample_rate of AudioCapture, in samples per second
CaptureSampleRate == 16000
\* frames the microphone delivers: silent ones and ones with speech
\* (energies in thousandths)
PipeEnergies == {5, 6}
PipeFrames == [n : {ChunkSize}, e : PipeEnergies]

RECURSIVE SumSquares(_)
SumSquares(frames) ==
    IF frames = << >> THEN 0
    ELSE Head(frames).e * Head(frames).e + SumSquares(Tail(frames))

\* the integer part of the square root of m
Sqrt(m) == CHOOSE r \in 0..m : r * r <= m /\ (r + 1) * (r + 1) > m

\* full_audio = np.concatenate(self._speech_buffer) as add_audio sees it: its
\* length in the recorder's samples and its energy sqrt(mean(audio ** 2));
\* all frames have the same length, so the mean is the mean over the frames
UtteranceChunk(frames) ==
    [n |-> (Len(frames) * ChunkSize * SampleRate) \div CaptureSampleRate,
     e |-> Sqrt(SumSquares(frames) \div Len(frames))]

RECURSIVE Str(_)
\* a text of the trigger detector as a string
Str(chars) == IF chars = << >> THEN "" ELSE Head(chars) \o Str(Tail(chars))

\* what self.recognizer.transcribe(audio_data) gives for an utterance: a text
\* and a confidence, counted in tenths. The API path gives 0.9 with whatever
\* text came back, the empty text included; the local path gives a confidence
\* between 0 and 1; a failed transcription gives ("", 0.0).
Transcription(txt, confidence) == [text |-> txt, confidence |-> confidence]
Transcriptions ==
    {Transcription(<<"w", "h", "a", "t", " ", "i", "s", " ", "k", "u", "b", "e", "r", "n", "e", "t", "e", "s">>, ApiConfidence),
     Transcription(<<"t", "h", "a", "t", "'", "s", " ", "i", "m", "p", "o", "r", "t", "a", "n", "t">>, ApiConfidence),
     Transcription(<<"e", "n", "d", " ", "n", "o", "t", "e">>, ApiConfidence),
     Transcription(<<"k", "u", "b", "e", "r", "n", "e", "t", "e", "s">>, ConfidenceThreshold + 1),
     Transcription(<<"e", "n", "d", " ", "n", "o", "t", "e">>, ConfidenceThreshold),
     Transcription(<< >>, ApiConfidence),
     Transcription(<< >>, 0)}

\* on_audio, line 98, with the bound taken for the strict one
UsableAtThresholdMutant(txt, confidence) ==
    txt # << >> /\ confidence >= ConfidenceThreshold

\* on_audio, line 98: if text and confidence > 0.3
Usable(txt, confidence) == txt # << >> /\ confidence > ConfidenceThreshold

\* self._stream.read(self.chunk_size, exception_on_overflow=False) returns
\* the oldest frame the stream holds: late tells whether the microphone
\* delivered it while the capture thread was inside on_audio
Delivered(frame, late) == [n |-> frame.n, e |-> frame.e, late |-> late]

\* _capture_loop, lines 132-136, with _process_chunk: one frame is read and
\* segmented; when it ends an utterance, on_audio is called with it (line 170).
ReadAndSegment(frames, loudLimit) ==
    /\ capPc = "read"
    /\ \E frame \in frames :
         /\ IsSpeech(frame) => pipeHist.loud < loudLimit
         /\ Segmentation(Delivered(frame, pipeHist.unread > 0))
         /\ pipeHist' = [pipeHist EXCEPT
                           !.loud = IF IsSpeech(frame) THEN @ + 1 ELSE @,
                           !.oddReads = ~@,
                           !.unread = IF @ > 0 THEN @ - 1 ELSE @,
                           !.segmentedWhileRecording = @ \/ recording]
    /\ IF utterances' > utterances
         THEN /\ capPc' = "on_audio"
              /\ audio_data' = lastUtterance'
              /\ handled' = handled + 1
         ELSE UNCHANGED <<capPc, audio_data, handled>>
    /\ UNCHANGED <<fed, processing, match, recVars, callVars, histVars, trigVars,
                   resVars>>

\* the same step of a capture loop that is taken to run and not to be paused
CaptureRead(frames, loudLimit) ==
    ReadAndSegment(frames, loudLimit) /\ UNCHANGED capVars

\* on_audio, lines 81-92
\* on_audio without the test of is_recording at lines 81-86
OnAudioIgnoresRecordingMutant ==
    /\ capPc = "on_audio"
    /\ IF processing
         THEN capPc' = "read" /\ UNCHANGED processing
         ELSE capPc' = "transcribe" /\ processing' = TRUE
    /\ UNCHANGED <<recVars, callVars, histVars, vadVars, trigVars, resVars, capVars>>
    /\ UNCHANGED <<audio_data, match, handled, pipeHist>>

OnAudio ==
    /\ capPc = "on_audio"
    /\ IF recording
         THEN /\ Call(CaptureThread,
                      [NoArg EXCEPT !.op = "add", !.chunk = UtteranceChunk(audio_data)])
              /\ capPc' = "add_audio"
              /\ UNCHANGED processing
         ELSE /\ IF processing
                   THEN capPc' = "read" /\ UNCHANGED processing
                   ELSE capPc' = "transcribe" /\ processing' = TRUE
              /\ UNCHANGED <<recVars, callVars, histVars, vadVars, trigVars, resVars, capVars>>
    /\ UNCHANGED <<audio_data, match, handled, pipeHist>>

\* on_audio, lines 96-98: the utterance is transcribed on the thread that
\* called on_audio; a usable text goes to the trigger detector
Transcribe ==
    /\ capPc = "transcribe"
    /\ trigPc = "idle"
    /\ \E t \in Transcriptions :
         /\ pipeHist' = [pipeHist EXCEPT !.heard = t]
         /\ IF Usable(t.text, t.confidence)
              THEN /\ text' = t.text
                   /\ trigPc' = "detect"
                   /\ result' = NoResult
                   /\ capPc' = "detect"
              ELSE /\ capPc' = "finally"
                   /\ UNCHANGED <<text, trigPc, result>>
    /\ UNCHANGED <<triggers, patterns, compPc, processing, audio_data, match, handled,
                   recVars, callVars, histVars, vadVars, resVars, capVars>>

\* on_audio, line 102: detect has returned and its result is kept in match
DetectReturns ==
    /\ capPc = "detect"
    /\ trigPc = "returned"
    /\ match' = result
    /\ capPc' = "dispatch"
    /\ trigPc' = "idle"
    /\ text' = << >>
    /\ result' = NoResult
    /\ UNCHANGED <<triggers, patterns, compPc, processing, audio_data, handled, pipeHist,
                   recVars, callVars, histVars, vadVars, resVars, capVars>>

\* on_audio, lines 104-127: what is done with the match
Dispatch ==
    /\ capPc = "dispatch"
    /\ IF match.kind = "match" /\ match.trigger_type = "transcription_start"
         THEN /\ Call(CaptureThread,
                      [NoArg EXCEPT !.op = "start",
                         !.start = [trigger |-> Str(match.trigger_phrase),
                                    cb |-> "_process_transcript_segment"]])
              /\ capPc' = "start_recording"
         ELSE IF match.kind = "match" /\ match.trigger_type = "transcription_stop"
                 /\ recording
           THEN /\ Call(CaptureThread, [NoArg EXCEPT !.op = "stop"])
                /\ capPc' = "stop_recording"
           ELSE /\ capPc' = IF match.kind = "match" /\ match.trigger_type = "research"
                               /\ match.has_topic /\ match.topic # << >>
                              THEN "research" ELSE "finally"
                /\ UNCHANGED <<recVars, callVars, histVars, vadVars, trigVars, resVars, capVars>>
    /\ UNCHANGED <<processing, audio_data, match, handled, pipeHist>>

\* on_audio, lines 107-110: research_sync runs to its end on the thread that
\* called on_audio and returns a result, successful or not
ResearchSync ==
    /\ capPc = "research"
    /\ capPc' = "finally"
    /\ UNCHANGED <<processing, audio_data, match, handled, pipeHist,
                   recVars, callVars, histVars, vadVars, trigVars, resVars,
                   capVars>>

\* the recorder method called from on_audio has returned: add_audio at
\* lines 82-86, start_recording at lines 115-119, stop_recording at 125-127
RecorderReturns ==
    /\ capPc \in {"add_audio", "start_recording", "stop_recording"}
    /\ pc[CaptureThread] = "idle"
    /\ capPc' = IF ret[CaptureThread].kind = "segment" THEN "segment"
                ELSE IF capPc = "add_audio" THEN "read" ELSE "finally"
    /\ UNCHANGED <<processing, audio_data, match, handled, pipeHist,
                   recVars, callVars, histVars, vadVars, trigVars, resVars,
                   capVars>>

\* _process_transcript_segment, lines 141-162, called with the segment that
\* add_audio (line 85) or stop_recording (line 127) returned
ProcessTranscriptSegment ==
    /\ capPc = "segment"
    /\ capPc' = IF ret[CaptureThread].op = "add" THEN "read" ELSE "finally"
    /\ UNCHANGED <<processing, audio_data, match, handled, pipeHist,
                   recVars, callVars, histVars, vadVars, trigVars, resVars,
                   capVars>>

\* on_audio without line 133
FinallyKeepsProcessingMutant ==
    /\ capPc = "finally"
    /\ capPc' = "read"
    /\ match' = NoResult
    /\ pipeHist' = [pipeHist EXCEPT !.heard = NotTranscribed]
    /\ UNCHANGED <<processing, audio_data, handled,
                   recVars, callVars, histVars, vadVars, trigVars, resVars,
                   capVars>>

\* on_audio, lines 132-135
Finally ==
    /\ capPc = "finally"
    /\ processing' = FALSE
    /\ capPc' = "read"
    /\ match' = NoResult
    /\ pipeHist' = [pipeHist EXCEPT !.heard = NotTranscribed]
    /\ UNCHANGED <<audio_data, handled,
                   recVars, callVars, histVars, vadVars, trigVars, resVars,
                   capVars>>

\* the recorder methods on_audio can be inside
InsideRecorder ==
    \/ Acquire(CaptureThread)
    \/ StartCheck(CaptureThread)
    \/ StartSet(CaptureThread)
    \/ AddCheck(CaptureThread)
    \/ AddAppend(CaptureThread)
    \/ FinCheck(CaptureThread)
    \/ FinSet(CaptureThread)
    \/ FinBuild(CaptureThread)

\* the steps of the capture thread inside on_audio, but for those inside the
\* trigger detector
OnAudioSteps ==
    \/ OnAudio
    \/ Transcribe
    \/ DetectReturns
    \/ Dispatch
    \/ ResearchSync
    \/ InsideRecorder
    \/ RecorderReturns
    \/ ProcessTranscriptSegment
    \/ Finally

\* the steps of the capture thread
CaptureSteps ==
    \/ CaptureRead(PipeFrames, MaxLoudFrames)
    \/ OnAudioSteps
    \/ Detect

\* Time is counted from the start of the recording session: the recorder
\* reads only differences of times taken during a session.
SessionTick == recording /\ Tick(MaxTime)

NextPipe == CaptureSteps \/ SessionTick

SpecPipe == Init /\ [][NextPipe]_vars

\* The capture thread keeps running and the microphone keeps delivering
\* frames, which may all be silent: a read of a silent frame that stays
\* possible is made, a step of on_audio that stays possible is taken, and a
\* call of detect returns.
SilentFrames == {frame \in PipeFrames : ~IsSpeech(frame)}
SpecPipeFair ==
    /\ SpecPipe
    /\ WF_vars(CaptureRead(SilentFrames, MaxLoudFrames))
    /\ WF_vars(OnAudioSteps)
    /\ []<>(trigPc # "detect")

\* The microphone delivers a frame while the capture thread is inside a
\* blocking call of on_audio (transcribe, research_sync): nobody reads, and the
\* frame stays in the input stream until the loop reads again.  A stream that
\* is full loses the frame instead (exception_on_overflow=False), which leaves
\* the state as it is.
MicDelivers(limit) ==
    /\ capPc \in {"transcribe", "research", "segment"}
    /\ pipeHist.unread < limit
    /\ pipeHist' = [pipeHist EXCEPT !.unread = @ + 1]
    /\ UNCHANGED <<processing, capPc, audio_data, match, handled,
                   recVars, callVars, histVars, vadVars, trigVars, resVars,
                   capVars>>

NextBuffered == NextPipe \/ MicDelivers(MaxUnread)

SpecBuffered == Init /\ [][NextBuffered]_vars

\* ------------------------------------------------- AudioCapture's life cycle
\* everything but the capture's own state
appVars == <<recVars, callVars, histVars, vadVars, trigVars, resVars, pipeVars>>

\* AudioCapture.start, lines 56-64, called by MeetingAssistant.run (main.py
\* line 264): the flags are set and the capture thread is started
Start ==
    /\ mainPc = "init"
    /\ ~running
    /\ running' = TRUE
    /\ paused' = FALSE
    /\ loopPc' = "init_pyaudio"
    /\ mainPc' = "run"
    /\ UNCHANGED <<stream, pyaudio, cleanPc, appVars>>

\* a thread enters _cleanup
EnterCleanup(t) == cleanPc' = [cleanPc EXCEPT ![t] = "stream_check"]

\* _init_pyaudio, lines 96-97: pyaudio.PyAudio() gives a handle or raises
\* (as does a failing import); _capture_loop catches it at line 143 and goes
\* to its finally clause
InitPyAudio ==
    /\ loopPc = "init_pyaudio"
    /\ \E ok \in BOOLEAN :
         IF ok THEN /\ pyaudio' = "open"
                    /\ loopPc' = "init_stream"
                    /\ UNCHANGED cleanPc
               ELSE /\ loopPc' = "cleanup"
                    /\ EnterCleanup("capture")
                    /\ UNCHANGED pyaudio
    /\ UNCHANGED <<running, paused, stream, mainPc, appVars>>

\* _init_pyaudio, lines 100-107: the device is opened, or open raises
InitStream ==
    /\ loopPc = "init_stream"
    /\ \E ok \in BOOLEAN :
         IF ok THEN /\ stream' = "open"
                    /\ loopPc' = "top"
                    /\ UNCHANGED cleanPc
               ELSE /\ loopPc' = "cleanup"
                    /\ EnterCleanup("capture")
                    /\ UNCHANGED stream
    /\ UNCHANGED <<running, paused, pyaudio, mainPc, appVars>>

\* the loop without the test of _paused at line 125
LoopTopIgnoresPausedMutant ==
    /\ loopPc = "top"
    /\ capPc = "read"
    /\ IF ~running
         THEN loopPc' = "cleanup" /\ EnterCleanup("capture")
         ELSE /\ loopPc' = "read"
              /\ UNCHANGED cleanPc
    /\ UNCHANGED <<running, paused, stream, pyaudio, mainPc, appVars>>

\* _capture_loop, lines 124-128: the loop tests _running and _paused; it comes
\* here from the start, from a sleep, and when _process_chunk, with the
\* on_audio it may have called, has returned
LoopTop ==
    /\ loopPc = "top"
    /\ capPc = "read"
    /\ IF ~running
         THEN loopPc' = "cleanup" /\ EnterCleanup("capture")
         ELSE /\ loopPc' = IF paused THEN "sleep" ELSE "read"
              /\ UNCHANGED cleanPc
    /\ UNCHANGED <<running, paused, stream, pyaudio, mainPc, appVars>>

\* lines 126-128 and 140-141: time.sleep(0.1), then the next iteration
LoopSleep ==
    /\ loopPc = "sleep"
    /\ loopPc' = "top"
    /\ UNCHANGED <<running, paused, stream, pyaudio, cleanPc, mainPc, appVars>>

\* a read error that is taken to the outer handler of line 143, and so to the
\* finally clause
LoopReadErrorEndsLoopMutant ==
    /\ loopPc = "read"
    /\ loopPc' = "cleanup"
    /\ EnterCleanup("capture")
    /\ UNCHANGED <<running, paused, stream, pyaudio, mainPc, appVars>>

\* lines 132 and 138-141: stream.read raises, as it must when stop has closed
\* the stream or cleared self._stream, and may at any time; the loop logs the
\* error and sleeps
LoopReadError ==
    /\ loopPc = "read"
    /\ loopPc' = "sleep"
    /\ UNCHANGED <<running, paused, stream, pyaudio, cleanPc, mainPc, appVars>>

\* lines 132-136 with the pipeline behind them: a frame is read and segmented
AppRead(frames, loudLimit) ==
    /\ loopPc = "read"
    /\ stream = "open"
    /\ ReadAndSegment(frames, loudLimit)
    /\ loopPc' = "top"
    /\ UNCHANGED <<running, paused, stream, pyaudio, cleanPc, mainPc>>

\* lines 132-136 with whatever callback was given to start: a frame is read,
\* and _process_chunk does or does not call on_audio with an utterance
ReadFrame ==
    /\ loopPc = "read"
    /\ stream = "open"
    /\ loopPc' = "top"
    /\ \E called \in BOOLEAN : capPc' = IF called THEN "on_audio" ELSE "read"
    /\ UNCHANGED <<running, paused, stream, pyaudio, cleanPc, mainPc,
                   processing, audio_data, match, handled, pipeHist,
                   recVars, callVars, histVars, vadVars, trigVars, resVars>>

\* the callback given to start returns
OnAudioReturns ==
    /\ capPc = "on_audio"
    /\ capPc' = "read"
    /\ UNCHANGED <<processing, audio_data, match, handled, pipeHist,
                   recVars, callVars, histVars, vadVars, trigVars, resVars, capVars>>

\* _cleanup, lines 111-117, statement by statement, for the thread t that
\* runs it.  stop_stream() and close() raise on a stream the other thread has
\* closed, and self._stream.stop_stream() and self._pyaudio.terminate() raise
\* AttributeError when the other thread has set the attribute to None; a
\* second terminate() of a handle is harmless.
CleanupGoto(t, label) == cleanPc' = [cleanPc EXCEPT ![t] = label]

CleanupStreamCheck(t) ==
    /\ cleanPc[t] = "stream_check"
    /\ CleanupGoto(t, IF stream # "none" THEN "stream_close" ELSE "pyaudio_check")
    /\ UNCHANGED <<running, paused, stream, pyaudio, loopPc, mainPc, appVars>>

CleanupStreamClose(t) ==
    /\ cleanPc[t] = "stream_close"
    /\ IF stream = "open"
         THEN stream' = "closed" /\ CleanupGoto(t, "stream_null")
         ELSE UNCHANGED stream /\ CleanupGoto(t, "raised")
    /\ UNCHANGED <<running, paused, pyaudio, loopPc, mainPc, appVars>>

CleanupStreamNull(t) ==
    /\ cleanPc[t] = "stream_null"
    /\ stream' = "none"
    /\ CleanupGoto(t, "pyaudio_check")
    /\ UNCHANGED <<running, paused, pyaudio, loopPc, mainPc, appVars>>

CleanupPyAudioCheck(t) ==
    /\ cleanPc[t] = "pyaudio_check"
    /\ CleanupGoto(t, IF pyaudio # "none" THEN "pyaudio_terminate" ELSE "done")
    /\ UNCHANGED <<running, paused, stream, pyaudio, loopPc, mainPc, appVars>>

CleanupPyAudioTerminate(t) ==
    /\ cleanPc[t] = "pyaudio_terminate"
    /\ IF pyaudio = "none"
         THEN UNCHANGED pyaudio /\ CleanupGoto(t, "raised")
         ELSE pyaudio' = "terminated" /\ CleanupGoto(t, "pyaudio_null")
    /\ UNCHANGED <<running, paused, stream, loopPc, mainPc, appVars>>

CleanupPyAudioNull(t) ==
    /\ cleanPc[t] = "pyaudio_null"
    /\ pyaudio' = "none"
    /\ CleanupGoto(t, "done")
    /\ UNCHANGED <<running, paused, stream, loopPc, mainPc, appVars>>

\* _cleanup returns, or the exception it raised leaves the caller: the capture
\* thread ends either way (lines 145-146); stop returns (lines 73-74) or raises
CleanupReturns(t) ==
    /\ cleanPc[t] \in {"done", "raised"}
    /\ CleanupGoto(t, "out")
    /\ IF t = "capture"
         THEN loopPc' = "exited" /\ UNCHANGED mainPc
         ELSE /\ mainPc' = IF cleanPc[t] = "done" THEN "stopped" ELSE "stop_raised"
              /\ UNCHANGED loopPc
    /\ UNCHANGED <<running, paused, stream, pyaudio, appVars>>

Cleanup(t) ==
    \/ CleanupStreamCheck(t)
    \/ CleanupStreamClose(t)
    \/ CleanupStreamNull(t)
    \/ CleanupPyAudioCheck(t)
    \/ CleanupPyAudioTerminate(t)
    \/ CleanupPyAudioNull(t)
    \/ CleanupReturns(t)

\* AudioCapture.stop, line 69, called by MeetingAssistant._on_quit (main.py
\* line 343)
StopClearsRunning ==
    /\ mainPc = "run"
    /\ running' = FALSE
    /\ mainPc' = "join"
    /\ UNCHANGED <<paused, stream, pyaudio, loopPc, cleanPc, appVars>>

\* The capture thread is inside a call that can last longer than the two
\* seconds stop waits for it: the opening of the device, or on_audio with its
\* transcription and research.
MayOutlastJoin == loopPc \in {"init_pyaudio", "init_stream"} \/ capPc # "read"

\* stop, lines 70-73: self._thread.join(timeout=2.0) returns when the thread
\* has ended or when the time is up, and stop goes on to _cleanup
StopJoins ==
    /\ mainPc = "join"
    /\ loopPc = "exited" \/ MayOutlastJoin
    /\ mainPc' = "cleanup"
    /\ EnterCleanup("main")
    /\ UNCHANGED <<running, paused, stream, pyaudio, loopPc, appVars>>

\* MeetingAssistant._on_quit, lines 344-347, after audio.stop() has returned
QuitRest ==
    /\ mainPc = "stopped"
    /\ mainPc' = "quit"
    /\ UNCHANGED <<running, paused, stream, pyaudio, loopPc, cleanPc, appVars>>

\* MeetingAssistant._on_pause_resume, lines 309-314, with AudioCapture.pause
\* and resume
Pause ==
    /\ mainPc = "run"
    /\ ~paused
    /\ paused' = TRUE
    /\ UNCHANGED <<running, stream, pyaudio, loopPc, cleanPc, mainPc, appVars>>

Resume ==
    /\ mainPc = "run"
    /\ paused
    /\ paused' = FALSE
    /\ UNCHANGED <<running, stream, pyaudio, loopPc, cleanPc, mainPc, appVars>>

\* AudioCapture with any callback
NextCapture ==
    \/ Start
    \/ InitPyAudio
    \/ InitStream
    \/ LoopTop
    \/ LoopSleep
    \/ ReadFrame
    \/ LoopReadError
    \/ OnAudioReturns
    \/ \E t \in CleanupThreads : Cleanup(t)
    \/ StopClearsRunning
    \/ StopJoins
    \/ Pause
    \/ Resume

SpecCapture == Init /\ [][NextCapture]_vars

\* The steps of on_audio over a stretch of time shorter than the recorder's
\* timeouts: the clock of the recorder does not advance and add_audio takes
\* fewer chunks than the duration cap, so that no session stops by itself and
\* _stop_and_get_segment is not entered.
ShortRunOnAudioSteps ==
    \/ OnAudio
    \/ Transcribe
    \/ DetectReturns
    \/ Dispatch
    \/ ResearchSync
    \/ Acquire(CaptureThread)
    \/ StartCheck(CaptureThread)
    \/ StartSet(CaptureThread)
    \/ AddCheck(CaptureThread)
    \/ AddAppend(CaptureThread)
    \/ RecorderReturns
    \/ Finally

\* the capture thread of the application: the loop of _capture_loop around
\* the pipeline that starts in on_audio
AppCaptureSteps ==
    \/ InitPyAudio
    \/ InitStream
    \/ LoopTop
    \/ LoopSleep
    \/ AppRead(PipeFrames, MaxLoudApp)
    \/ LoopReadError
    \/ ShortRunOnAudioSteps
    \/ Detect

\* MeetingAssistant.run starts the capture once; the capture thread then runs
\* beside the main thread, on which the user's hotkeys arrive.  The user
\* pauses and resumes:
NextPause == Start \/ AppCaptureSteps \/ Pause \/ Resume

SpecPause == Init /\ [][NextPause]_vars

\* MeetingAssistant._on_quit, lines 343-347, on the main thread
Quit ==
    \/ StopClearsRunning
    \/ StopJoins
    \/ Cleanup("main")
    \/ QuitRest

\* The user quits:
NextQuit == Start \/ AppCaptureSteps \/ Cleanup("capture") \/ Quit

SpecQuit == Init /\ [][NextQuit]_vars

\* ---------------------------------- detect beside a recompilation, step by step
\* self._patterns as a dictionary: a category without a key has no phrases
NoPatterns ==
    [research |-> << >>, transcription_start |-> << >>, transcription_stop |-> << >>]

\* detect raised an exception
Raised == [NoResult EXCEPT !.kind = "raised"]

\* update_triggers, line 171: the configuration is stored; _compile_patterns
\* follows
UpdateTriggersBegins(configs) ==
    /\ compPc = "idle"
    /\ \E cfg \in configs : triggers' = cfg
    /\ compPc' = "clear"
    /\ UNCHANGED <<patterns, trigPc, text, result, recVars, callVars, histVars,
                   vadVars, resVars, pipeVars, capVars>>

\* add_custom_trigger, lines 176-179: a new phrase is appended;
\* _compile_patterns follows
AddCustomTriggerBegins(phrase) ==
    /\ compPc = "idle"
    /\ \A i \in 1..Len(triggers.custom) :
          LowerStr(triggers.custom[i]) # LowerStr(phrase)
    /\ triggers' = [triggers EXCEPT !.custom = Append(@, phrase)]
    /\ compPc' = "clear"
    /\ UNCHANGED <<patterns, trigPc, text, result, recVars, callVars, histVars,
                   vadVars, resVars, pipeVars, capVars>>

\* _compile_patterns, line 38: self._patterns = {}
CompileClear ==
    /\ compPc = "clear"
    /\ patterns' = NoPatterns
    /\ compPc' = "research"
    /\ UNCHANGED <<triggers, trigPc, text, result, recVars, callVars, histVars,
                   vadVars, resVars, pipeVars, capVars>>

\* _compile_patterns, lines 41-54, 57-63 and 66-72: the pattern of one
\* category is compiled and stored under its key
StoreCategory(key, then) ==
    /\ patterns' = [patterns EXCEPT ![key] = CompilePatterns(triggers)[key]]
    /\ compPc' = then
    /\ UNCHANGED <<triggers, trigPc, text, result, recVars, callVars, histVars,
                   vadVars, resVars, pipeVars, capVars>>

CompileResearch ==
    /\ compPc = "research"
    /\ StoreCategory("research", "start")
CompileStart ==
    /\ compPc = "start"
    /\ StoreCategory("transcription_start", "stop")
CompileStop ==
    /\ compPc = "stop"
    /\ StoreCategory("transcription_stop", "idle")

\* detect goes on at position to, or returns res
DetectGoes(to) ==
    /\ trigPc' = to
    /\ UNCHANGED <<triggers, patterns, text, result, compPc, recVars, callVars,
                   histVars, vadVars, resVars, pipeVars, capVars>>
DetectReturn(res) ==
    /\ trigPc' = "returned"
    /\ result' = res
    /\ UNCHANGED <<triggers, patterns, text, compPc, recVars, callVars,
                   histVars, vadVars, resVars, pipeVars, capVars>>

\* detect, lines 84-88
DetectBegins ==
    /\ trigPc = "detect"
    /\ IF text = << >> THEN DetectReturn(NoneResult) ELSE DetectGoes("research_test")

\* detect, lines 91, 120 and 133: 'key' in self._patterns
DetectTests(key, search, otherwise) ==
    DetectGoes(IF patterns[key] # << >> THEN search ELSE otherwise)

TestResearch ==
    /\ trigPc = "research_test"
    /\ DetectTests("research", "research_search", "start_test")
TestStart ==
    /\ trigPc = "start_test"
    /\ DetectTests("transcription_start", "start_search", "stop_test")

\* lines 133 and 145
TestStop ==
    /\ trigPc = "stop_test"
    /\ IF patterns.transcription_stop # << >>
         THEN DetectGoes("stop_search")
         ELSE DetectReturn(NoneResult)

\* lines 92-117: self._patterns['research'] is read again, which raises
\* KeyError when the dictionary no longer has the key
SearchResearchStep ==
    /\ trigPc = "research_search"
    /\ IF patterns.research = << >>
         THEN DetectReturn(Raised)
         ELSE LET r == SearchResearch(LowerStr(Strip(text)), patterns.research)
                  cleaned == CleanTopic(r.topic)
              IN IF r.found /\ r.phrase # << >> /\ r.topic # << >> /\ cleaned # << >>
                   THEN DetectReturn(TriggerMatch("research", r.phrase, TRUE, cleaned,
                                                  Strip(text)))
                   ELSE DetectGoes("start_test")

\* lines 121-130 and 134-145
SearchPlainStep(key, otherwise) ==
    IF patterns[key] = << >>
      THEN DetectReturn(Raised)
      ELSE LET m == SearchPlain(LowerStr(Strip(text)), patterns[key])
           IN IF m.found
                THEN DetectReturn(TriggerMatch(key, m.phrase, FALSE, << >>,
                                               Strip(text)))
                ELSE IF otherwise = "none" THEN DetectReturn(NoneResult)
                     ELSE DetectGoes(otherwise)

SearchStart ==
    /\ trigPc = "start_search"
    /\ SearchPlainStep("transcription_start", "stop_test")
SearchStop ==
    /\ trigPc = "stop_search"
    /\ SearchPlainStep("transcription_stop", "none")

\* the texts of the calls of detect that run beside a recompilation
RaceTexts ==
    {Join(<<DefaultTriggers.research[2], <<"k","u","b","e","r","n","e","t","e","s">> >>),
     DefaultTriggers.transcription_start[3],
     DefaultTriggers.transcription_stop[4],
     Join(<<DefaultTriggers.transcription_stop[4], DefaultTriggers.transcription_start[3]>>),
     << >>}

\* One thread changes the configuration while another calls detect; nothing
\* in TriggerDetector orders the two.
NextRecompile ==
    \/ UpdateTriggersBegins({DefaultTriggers})
    \/ \E phrase \in CustomPhrases : AddCustomTriggerBegins(phrase)
    \/ CompileClear
    \/ CompileResearch
    \/ CompileStart
    \/ CompileStop
    \/ DetectCall(RaceTexts)
    \/ DetectBegins
    \/ TestResearch
    \/ SearchResearchStep
    \/ TestStart
    \/ SearchStart
    \/ TestStop
    \/ SearchStop
    \/ DetectDone

SpecRecompile == Init /\ [][NextRecompile]_vars

\* ------------------------------------------------ the Processing cycles alone
\* The capture thread over a stretch of time shorter than the recorder's
\* timeouts, with a capture that is neither paused nor stopped.
NextCycle ==
    \/ CaptureRead(PipeFrames, MaxLoudApp)
    \/ ShortRunOnAudioSteps
    \/ Detect

SpecCycle == Init /\ [][NextCycle]_vars

\* The capture thread keeps running, so that a step of on_audio that stays
\* possible is taken (transcribe and research_sync return, the recorder's lock
\* is free), and a call of detect returns.
SpecCycleFair ==
    /\ SpecCycle
    /\ WF_vars(ShortRunOnAudioSteps)
    /\ []<>(trigPc # "detect")

\* current_duration, lines 170-176, read with the lock free: the samples the
\* property counts, which it divides by sample_rate
CurrentDuration ==
    IF ~recording \/ audio_buffer = << >> THEN 0 ELSE TotalSamples(audio_buffer)

\* =================================================================== claims
Cap == MaxDurationSeconds * SampleRate
Silent(chunk) == chunk.e < SilenceThreshold
StartPcs == {"start_check", "start_set"}
StopPcs == {"stop_check", "stop_set", "stop_build"}
AddPcs == {"add_check", "add_append", "fin_check", "fin_set", "fin_build"}
\* thread t takes the step that returns from its call
Returns(t) == pc[t] # "idle" /\ pc[t] # "wait" /\ pc'[t] = "idle"

\* C1 (SpecThreads): start_recording returns True only from a recorder with no
\* active session, and that step starts the one session; a start_recording that
\* finds a session active returns False and leaves the buffered audio, the
\* trigger, the start time, the callback and the recording flag as they were.
\* Two interleaved start calls therefore never both start a session.
C1_StartOnlyWhenIdle ==
    [][\A t \in Threads :
         (pc[t] \in StartPcs /\ Returns(t)) =>
            IF recording
              THEN /\ ret'[t].kind = "bool" /\ ret'[t].val = FALSE
                   /\ UNCHANGED <<recording, audio_buffer, trigger, start_time,
                                  on_complete, sessions>>
              ELSE /\ ret'[t].kind = "bool" /\ ret'[t].val = TRUE
                   /\ recording' /\ sessions' = sessions + 1
                   /\ trigger' = arg[t].start.trigger
                   /\ on_complete' = arg[t].start.cb]_vars

\* Both threads called start_recording while no session was active; t1 won
\* and went on to add audio, and t2 was then refused: the session still holds
\* its audio, its trigger and its callback.
C1_Witness ==
    /\ ret["t2"].op = "start" /\ ret["t2"].kind = "bool" /\ ~ret["t2"].val
    /\ ret["t2"].sid = 0
    /\ recording /\ audio_buffer # << >> /\ sessions = 1
    /\ trigger = "note that" /\ on_complete = "cb1"

\* C2 (SpecThreads): a session's segment is returned at most once and, when the
\* session captured audio, exactly once; no call ends with an exception; and
\* of a stop_recording call and an add_audio call made on the same session, the
\* add_audio having reached an auto-stop decision, exactly one returned the
\* segment and the other returned None.
C2_OneSegmentPerSession ==
    /\ emitted <= 1
    /\ \A t \in Threads : ret[t].kind # "error"
    /\ (lock = NoThread /\ ~recording /\ sessions > 0 /\ appended > 0) => emitted = 1
    /\ \A t, u \in Threads :
         (/\ ret[t].op = "stop" /\ ret[u].op = "add" /\ ret[u].autostop # "no"
          /\ ret[t].sid # 0 /\ ret[t].sid = ret[u].sid)
         => /\ {ret[t].kind, ret[u].kind} = {"segment", "none"}

\* stop_recording was called during the session and lost the race against an
\* add_audio that auto-stopped on silence.
C2_Witness ==
    /\ ret["t2"].op = "stop" /\ ret["t2"].kind = "none"
    /\ ret["t1"].op = "add" /\ ret["t1"].kind = "segment"
    /\ ret["t1"].autostop = "silence"
    /\ ret["t2"].sid = 1 /\ ret["t1"].sid = 1

\* C3 (Spec): the add_audio that makes the accumulated samples reach
\* max_duration_seconds * sample_rate takes the duration-cap decision, whatever
\* the chunk's energy and the silence timer; the call then returns the segment
\* holding every chunk, that one included, and the session has ended; and
\* between calls a recording session never holds that many samples.
C3_CapFinalizes ==
    /\ [](\A t \in Threads :
            /\ (recording /\ lock = NoThread) => TotalSamples(audio_buffer) < Cap
            /\ (ret[t].op = "add" /\ ret[t].autostop = "cap")
                 => /\ ret[t].kind = "segment" /\ ~recording
                    /\ ret[t].seg.samples >= Cap
                    /\ ret[t].seg.samples - ret[t].seg.audio[Len(ret[t].seg.audio)].n < Cap)
    /\ [][\A t \in Threads :
            (pc[t] = "add_append" /\ pc'[t] # "add_append") =>
               /\ audio_buffer' = Append(audio_buffer, arg[t].chunk)
               /\ (TotalSamples(audio_buffer') >= Cap
                     => pc'[t] = "fin_check" /\ arg'[t].autostop = "cap")
               /\ (arg'[t].autostop = "cap" => TotalSamples(audio_buffer') >= Cap)
               /\ (pc'[t] = "idle" => ret'[t].kind = "none")]_vars

\* The cap ended a session on a silent chunk while the silence timer had also
\* run out.
C3_Witness ==
    /\ ret["t1"].op = "add" /\ ret["t1"].autostop = "cap" /\ ret["t1"].kind = "segment"
    /\ Silent(ret["t1"].seg.audio[Len(ret["t1"].seg.audio)])
    /\ silence_start # NoTime /\ now - silence_start >= AutoStopSilenceSeconds

\* C4 (Spec): when a silent chunk arrives auto_stop_silence_seconds or more
\* after the first chunk of the current uninterrupted run of silent chunks,
\* add_audio takes an auto-stop decision, and a call that took one returns the
\* segment and leaves no session active.
C4_SilenceFinalizes ==
    /\ [](\A t \in Threads :
            (ret[t].op = "add" /\ ret[t].autostop # "no")
               => /\ ret[t].kind = "segment" /\ ~recording
                  /\ ret[t].seg.audio # << >>)
    /\ [][\A t \in Threads :
            (/\ pc[t] = "add_append" /\ pc'[t] # "add_append"
             /\ Silent(arg[t].chunk)
             /\ runStart # NoTime /\ now - runStart >= AutoStopSilenceSeconds)
            => pc'[t] = "fin_check" /\ arg'[t].autostop # "no"]_vars

C4_Witness ==
    /\ ret["t1"].op = "add" /\ ret["t1"].autostop = "silence"
    /\ ret["t1"].kind = "segment" /\ Len(ret["t1"].seg.audio) >= 2
    /\ ~recording

\* C5 (Spec): while a session goes on, the silence timer is the arrival time
\* of the first chunk of the current uninterrupted run of silent chunks and is
\* inactive after a chunk that is not silent; a silence auto-stop is decided
\* only on a silent chunk arriving auto_stop_silence_seconds or more after the
\* start of that uninterrupted run.
C5_LoudChunkResetsTimer ==
    /\ []((recording /\ lock = NoThread) =>
            /\ silence_start = runStart
            /\ (audio_buffer # << >> /\ ~Silent(audio_buffer[Len(audio_buffer)]))
                 => silence_start = NoTime)
    /\ [][\A t \in Threads :
            (pc[t] = "add_append" /\ arg'[t].autostop = "silence") =>
               /\ Silent(arg[t].chunk)
               /\ runStart # NoTime /\ now - runStart >= AutoStopSilenceSeconds]_vars

\* A silence run was interrupted by a loud chunk; the session goes on although
\* the timeout has passed since the first silent chunk.
C5_Witness ==
    /\ recording /\ lock = NoThread
    /\ Len(audio_buffer) = 2
    /\ Silent(audio_buffer[1]) /\ ~Silent(audio_buffer[2])
    /\ silence_start = NoTime
    /\ now - start_time >= AutoStopSilenceSeconds

\* C6 (Spec, one caller): stop_recording returns the segment exactly when a
\* session was active and had captured audio, and otherwise None; either way
\* no session is active afterwards; a stop_recording that directly follows
\* one that returned the segment returns None.
C6_StopTwice ==
    /\ [](\A t \in Threads :
            ret[t].op = "stop" =>
               /\ ~recording
               /\ ret[t].kind \in {"segment", "none"}
               /\ ret[t].sid = 0 => ret[t].kind = "none"
               /\ ret[t].prev = <<"stop", "segment">> => ret[t].kind = "none"
               /\ ret[t].kind = "segment" => ret[t].seg.audio # << >>)
    /\ [][\A t \in Threads :
            (pc[t] \in StopPcs /\ Returns(t)) =>
               /\ ret'[t].kind =
                    IF arg[t].sid # 0 /\ appended > 0 THEN "segment" ELSE "none"
               /\ ret'[t].kind = "segment" => ret'[t].seg.audio = audio_buffer
               /\ ~recording' /\ audio_buffer' = << >>]_vars

\* The second of two stop_recording calls in a row, after the first returned
\* the segment.
C6_Witness ==
    /\ ret["t1"].op = "stop" /\ ret["t1"].kind = "none"
    /\ ret["t1"].prev = <<"stop", "segment">>

\* A stop_recording that ended a session without audio.
C6_WitnessEmpty ==
    /\ ret["t1"].op = "stop" /\ ret["t1"].kind = "none" /\ ret["t1"].sid # 0

\* ------------------------------------------------------------- VAD claims
\* A frame as the claims class it, from its energy alone.
Loud(frame) == frame.e > SpeechThreshold
RECURSIVE LeadingLoud(_)
\* the number of speech frames at the head of a frame sequence
LeadingLoud(fs) ==
    IF fs = << >> \/ ~Loud(Head(fs)) THEN 0 ELSE 1 + LeadingLoud(Tail(fs))
RECURSIVE TrailingLoud(_)
\* the number of speech frames at the end of a frame sequence
TrailingLoud(fs) ==
    IF fs = << >> \/ ~Loud(fs[Len(fs)]) THEN 0
    ELSE 1 + TrailingLoud(SubSeq(fs, 1, Len(fs) - 1))
AllQuiet(fs) == \A i \in 1..Len(fs) : ~Loud(fs[i])
\* fs is k speech frames followed by m frames at or below the threshold
SpeechThenSilence(fs, k, m) ==
    /\ Len(fs) = k + m
    /\ LeadingLoud(fs) = k
    /\ AllQuiet(SubSeq(fs, k + 1, Len(fs)))

\* C7 (SpecVad): a frame at or below the speech threshold, given to a VAD
\* that is not in_speech, calls on_audio not at all and leaves the VAD not
\* in_speech; so no sequence of such frames, of whatever length, emits an
\* utterance.
C7_QuietFramesNeverEmit ==
    [][(~in_speech /\ fed' # fed /\ ~Loud(fed'[Len(fed')]))
         => (utterances' = utterances /\ lastUtterance' = lastUtterance
             /\ ~in_speech')]_vars

\* Quiet frames after an emitted utterance, and quiet frames only from the
\* start with the context window full.
C7_Witness ==
    /\ ~in_speech /\ utterances = 1 /\ speech_buffer # << >>
    /\ AllQuiet(speech_buffer)

C7_WitnessFromInit ==
    /\ AllQuiet(fed) /\ Len(fed) > ContextChunks /\ utterances = 0

\* C8 (SpecVad): after, from the initial state, k >= 3 speech frames followed
\* by m silence frames, on_audio has been called once if m >= 10 and not at
\* all if m < 10, and the audio of that call is the k speech frames and the
\* first 10 silence frames: (k + 10) * chunk_size samples.
C8_OneUtterance ==
    \A k \in SpeechStartChunks..Len(fed) :
       SpeechThenSilence(fed, k, Len(fed) - k) =>
          IF Len(fed) - k >= SilenceEndChunks
            THEN /\ utterances = 1
                 /\ lastUtterance = SubSeq(fed, 1, k + SilenceEndChunks)
                 /\ TotalSamples(lastUtterance) = (k + SilenceEndChunks) * ChunkSize
            ELSE utterances = 0

\* Four speech frames, then ten silence frames.
C8_Witness ==
    /\ SpeechThenSilence(fed, 4, 10)
    /\ utterances = 1 /\ Len(lastUtterance) = 14

\* C9 (SpecVad), the claim as stated: in_speech is set only by a frame that
\* completes a run of at least 3 consecutive speech frames.
C9_StartsOnlyAfterThreeSpeechFrames ==
    [][(~in_speech /\ in_speech') => TrailingLoud(fed') >= SpeechStartChunks]_vars


\* ---------------------------------------------------------------- C10
\* the configured research phrases, in the order of their alternation
ResearchPhrases == triggers.research \o triggers.custom
\* txt consists of the phrase p, whitespace and a non-empty topic
ConsistsOfPhraseAndTopic(txt, p) ==
    /\ StartsWith(txt, p)
    /\ SpaceRun(txt, Len(p) + 1) >= 1
    /\ Len(p) + SpaceRun(txt, Len(p) + 1) < Len(txt)
    /\ ~IsSpace(txt[Len(txt)])
\* the topic of such a text
TopicTextAfter(txt, p) ==
    SubSeq(txt, Len(p) + SpaceRun(txt, Len(p) + 1) + 1, Len(txt))
FirstLetterCapitalized(str) ==
    [i \in 1..Len(str) |-> IF i = 1 THEN Upper(str[i]) ELSE str[i]]
\* no . ? ! after the first character, no trailing punctuation, and no
\* leading filler word followed by a space
PlainTopic(topic) ==
    /\ \A k \in 2..Len(topic) : topic[k] \notin Terminators
    /\ topic[Len(topic)] \notin TrailingPunctuation
    /\ \A f \in 1..Len(Fillers) : ~StartsWith(LowerStr(topic), Fillers[f] \o <<" ">>)
\* p is the i-th research phrase, it starts with a word character, txt is p
\* in any letter case, whitespace and a plain topic, and no research phrase
\* configured before p, followed by whitespace, begins txt
PhraseThenPlainTopic(txt, i) ==
    LET p == LowerStr(ResearchPhrases[i])
        low == LowerStr(txt)
    IN /\ p # << >> /\ p[1] \notin Precede
       /\ ConsistsOfPhraseAndTopic(low, p)
       /\ PlainTopic(TopicTextAfter(txt, p))
       /\ \A j \in 1..(i - 1) :
             ~StartsWith(low, LowerStr(ResearchPhrases[j]) \o <<" ">>)

\* C10 (as stated): for every configured research phrase p and every text
\* consisting of p, whitespace and a non-empty topic, detect returns a match
\* of type research whose trigger_phrase is p and whose topic is the topic
\* text with its first letter capitalized.
C10_PhraseAndTopicAsStated ==
    trigPc = "returned" =>
      \A i \in 1..Len(ResearchPhrases) :
        ConsistsOfPhraseAndTopic(text, ResearchPhrases[i]) =>
          /\ result.kind = "match"
          /\ result.trigger_type = "research"
          /\ result.trigger_phrase = ResearchPhrases[i]
          /\ result.has_topic
          /\ result.topic =
               FirstLetterCapitalized(TopicTextAfter(text, ResearchPhrases[i]))

\* C10 (amended): for every configured research phrase p that starts with a
\* word character and every text consisting of p in any letter case,
\* whitespace and a topic that has no . ? ! after its first character, no
\* trailing punctuation and no leading filler word, where no research phrase
\* configured before p followed by whitespace begins the text, detect returns
\* a match of type research whose trigger_phrase is p in lower case and whose
\* topic is the topic text in lower case with its first letter capitalized.
C10_PhraseThenPlainTopic ==
    trigPc = "returned" =>
      \A i \in 1..Len(ResearchPhrases) :
        PhraseThenPlainTopic(text, i) =>
          /\ result.kind = "match"
          /\ result.trigger_type = "research"
          /\ result.trigger_phrase = LowerStr(ResearchPhrases[i])
          /\ result.has_topic
          /\ result.topic =
               FirstLetterCapitalized(LowerStr(
                 TopicTextAfter(text, LowerStr(ResearchPhrases[i]))))
          /\ result.raw_text = text

\* detect has returned for a text made of a custom research phrase in another
\* letter case, several spaces and a topic with capital letters
C10_Witness ==
    /\ trigPc = "returned"
    /\ \E i \in 1..Len(ResearchPhrases) :
          /\ i > Len(triggers.research)
          /\ PhraseThenPlainTopic(text, i)
          /\ ~StartsWith(text, ResearchPhrases[i])
          /\ SpaceRun(text, Len(ResearchPhrases[i]) + 1) > 1
          /\ TopicTextAfter(text, ResearchPhrases[i]) #
               LowerStr(TopicTextAfter(text, ResearchPhrases[i]))
    /\ result.kind = "match"
\* detect has returned the example of the claim
C10_WitnessExample ==
    /\ trigPc = "returned"
    /\ text = Join(<<DefaultTriggers.research[1],
                     <<"k","u","b","e","r","n","e","t","e","s">> >>)
    /\ result.topic = <<"K","u","b","e","r","n","e","t","e","s">>

\* ---------------------------------------------------------------- C11
\* str begins with a filler word followed by a space
BeginsWithFiller(str) ==
    \E f \in 1..Len(Fillers) : StartsWith(LowerStr(str), Fillers[f] \o <<" ">>)

\* C11 (as stated): for every research match, the returned topic never
\* begins with a filler word of the fixed list followed by a space.
C11_TopicNeverBeginsWithFiller ==
    (trigPc = "returned" /\ result.kind = "match"
       /\ result.trigger_type = "research")
      => ~BeginsWithFiller(result.topic)

\* ---------------------------------------------------------------- C12
\* the text detect looks at
Lowered == LowerStr(Strip(text))
\* the phrase lit stands in str at position k, at the start of str or after
\* whitespace or a period, and whitespace and at least one character follow
OccursWithTopic(str, k, lit) ==
    /\ k = 1 \/ (k > 1 /\ str[k - 1] \in Precede)
    /\ MatchesAt(str, k, LowerStr(lit))
    /\ SpaceRun(str, k + Len(lit)) >= 1
    /\ k + Len(lit) + SpaceRun(str, k + Len(lit)) <= Len(str)
\* the occurrences of research phrases: <<position, index of the phrase>>
ResearchOccurrences(str) ==
    {o \in (1..Len(str)) \X (1..Len(ResearchPhrases)) :
        OccursWithTopic(str, o[1], ResearchPhrases[o[2]])}
\* the first of them: leftmost, and of those the first configured
FirstOccurrence(str) ==
    CHOOSE o \in ResearchOccurrences(str) : \A q \in ResearchOccurrences(str) :
        o[1] < q[1] \/ (o[1] = q[1] /\ o[2] <= q[2])
\* the text after an occurrence and its whitespace, up to the next . ? ! that
\* is not its first character, or to the end
RawTopicOf(str, o) ==
    LET ts == o[1] + Len(ResearchPhrases[o[2]])
                + SpaceRun(str, o[1] + Len(ResearchPhrases[o[2]]))
        stops == {e \in (ts + 1)..Len(str) : str[e] \in Terminators}
        stop == IF stops = {} THEN Len(str) + 1
                ELSE CHOOSE e \in stops : \A x \in stops : e <= x
    IN SubSeq(str, ts, stop - 1)
\* lit stands somewhere in str
Contains(str, lit) == \E k \in 1..(Len(str) + 1) : MatchesAt(str, k, LowerStr(lit))
ContainsAnyOf(str, lits) == \E j \in 1..Len(lits) : Contains(str, lits[j])
\* the first occurrence of a research phrase has a topic that cleaning leaves
\* non-empty
FirstResearchTopicUsable(str) ==
    /\ ResearchOccurrences(str) # {}
    /\ CleanTopic(RawTopicOf(str, FirstOccurrence(str))) # << >>

\* C12 (as stated): a text containing a research phrase followed by a
\* non-empty topic yields a research match even when a note-start or
\* note-stop phrase occurs earlier in it, and a note-start phrase wins over a
\* note-stop phrase.
C12_CategoryOrderAsStated ==
    trigPc = "returned" =>
      /\ ResearchOccurrences(Lowered) # {}
           => (result.kind = "match" /\ result.trigger_type = "research")
      /\ (ResearchOccurrences(Lowered) = {}
            /\ ContainsAnyOf(Lowered, triggers.transcription_start))
           => (result.kind = "match"
                 /\ result.trigger_type = "transcription_start")

\* C12 (amended): detect returns at most one match and checks the categories
\* in the order research, note-start, note-stop wherever the phrases stand: a
\* text whose first occurrence of a research phrase carries a topic that is
\* non-empty after cleaning yields a research match for that phrase, even
\* when note-start or note-stop phrases stand before it; any other text that
\* contains a note-start phrase yields a note-start match, also when it
\* contains a note-stop phrase; a note-stop match is returned only for the
\* remaining texts.
C12_CategoryOrder ==
    trigPc = "returned" =>
      /\ FirstResearchTopicUsable(Lowered)
           => /\ result.kind = "match"
              /\ result.trigger_type = "research"
              /\ result.trigger_phrase =
                   LowerStr(ResearchPhrases[FirstOccurrence(Lowered)[2]])
      /\ (~FirstResearchTopicUsable(Lowered)
            /\ ContainsAnyOf(Lowered, triggers.transcription_start))
           => (result.kind = "match"
                 /\ result.trigger_type = "transcription_start")
      /\ (result.kind = "match" /\ result.trigger_type = "transcription_stop")
           => /\ ~FirstResearchTopicUsable(Lowered)
              /\ ~ContainsAnyOf(Lowered, triggers.transcription_start)
              /\ ContainsAnyOf(Lowered, triggers.transcription_stop)

\* a research match for a text that begins with a note-stop phrase and also
\* contains a note-start phrase
C12_Witness ==
    /\ trigPc = "returned"
    /\ StartsWith(Lowered, triggers.transcription_stop[4])
    /\ ContainsAnyOf(Lowered, triggers.transcription_start)
    /\ result.kind = "match"
    /\ result.trigger_type = "research"
\* a note-start match for a text that begins with a note-stop phrase
C12_WitnessStartOverStop ==
    /\ trigPc = "returned"
    /\ StartsWith(Lowered, triggers.transcription_stop[4])
    /\ result.kind = "match"
    /\ result.trigger_type = "transcription_start"

\* ---------------------------------------------------------------- C13
\* some configured phrase of some category stands in str
SomePhraseOccurs(str) ==
    \/ ContainsAnyOf(str, ResearchPhrases)
    \/ ContainsAnyOf(str, triggers.transcription_start)
    \/ ContainsAnyOf(str, triggers.transcription_stop)

\* C13: detect returns None for every text in which no configured phrase of
\* any category occurs, the empty text included, and a category whose phrase
\* list is empty or missing produces no match; detect always returns.
C13_NoPhraseNoMatch ==
    trigPc = "returned" =>
      /\ result.kind \in {"none", "match"}
      /\ ~SomePhraseOccurs(Lowered) => result.kind = "none"
      /\ text = << >> => result.kind = "none"
      /\ ResearchPhrases = << >> => result.trigger_type # "research"
      /\ triggers.transcription_start = << >>
           => result.trigger_type # "transcription_start"
      /\ triggers.transcription_stop = << >>
           => result.trigger_type # "transcription_stop"

\* detect returned None for a text holding a default research phrase with a
\* topic and a default note-stop phrase, under a configuration without
\* research and note-stop phrases
C13_Witness ==
    /\ trigPc = "returned"
    /\ ResearchPhrases = << >>
    /\ triggers.transcription_stop = << >>
    /\ triggers.transcription_start # << >>
    /\ OccursWithTopic(Lowered, 1, DefaultTriggers.research[2])
    /\ ContainsAnyOf(Lowered, DefaultTriggers.transcription_stop)
    /\ result.kind = "none"
\* detect returned None for a non-empty text without any configured phrase
\* under the default configuration
C13_WitnessNoPhrase ==
    /\ trigPc = "returned"
    /\ triggers = DefaultTriggers
    /\ Lowered # << >>
    /\ ~SomePhraseOccurs(Lowered)
    /\ result.kind = "none"

\* ---------------------------------------------------------------- C14
\* the research call in flight or just returned names a provider that is not
\* among the initialised ones
UnknownProviderRequested ==
    /\ resPc \in {"research", "provider", "close", "returned"}
    /\ resArg.provider # NoProvider
    /\ resArg.provider \notin providers

\* C14: research called with a provider name that is not among the
\* initialised providers calls no provider, and what it returns is a
\* ResearchResult with success = false and latency_ms = 0.
C14_UnknownProviderNoCall ==
    UnknownProviderRequested =>
        /\ providerCalls = << >>
        /\ resPc # "provider"
        /\ resPc \in {"close", "returned"} =>
             /\ resResult.kind = "result"
             /\ resResult.success = FALSE
             /\ resResult.latency_ms = 0

\* research has returned from a request for "deepseek" while "openai" is
\* initialised and is the default provider
C14_Witness ==
    /\ UnknownProviderRequested
    /\ resPc = "returned"
    /\ resArg.provider = "deepseek"
    /\ providers = {"openai"}
    /\ default_provider = "openai"
    /\ resResult.error = "No provider available (requested: deepseek)"

\* ---------------------------------------------------------------- C15
\* the client call of the research call in flight ended in a timeout
ClientTimedOut ==
    /\ providerCalls # << >>
    /\ providerCalls[Len(providerCalls)].o \in TimeoutExceptions
\* the client call ended in a failure that is no timeout
ClientFailedOtherwise ==
    /\ providerCalls # << >>
    /\ LET o == providerCalls[Len(providerCalls)].o
       IN  o \in OtherExceptions \/ o = Response("no_choices")
\* the texts by which a result's error identifies a timeout
TimeoutErrors == {"Request timed out", "Request timed out."}

C15_TimeoutResult ==
    resPc \in {"close", "returned"} =>
        /\ ClientTimedOut =>
             /\ resResult.kind = "result"
             /\ resResult.success = FALSE
             /\ resResult.error \in TimeoutErrors
        /\ ClientFailedOtherwise => resResult.error \notin TimeoutErrors

\* the client call is still unanswered when the timeout has elapsed
AwaitingPastTimeout == resPc = "provider" /\ now - resStart >= TimeoutSeconds

ClientFailed == ClientTimedOut \/ ClientFailedOtherwise

\* C16: every failure of a provider call is returned by research and by
\* research_sync as a ResearchResult with success = false, an error message and
\* the latency elapsed since the call started; no exception leaves the call.
C16_FailureIsResult ==
    (resPc \in {"close", "returned"} /\ ClientFailed) =>
        /\ resResult.kind = "result"
        /\ resResult.success = FALSE
        /\ resResult.error # NoError
        /\ resResult.latency_ms =
             (providerCalls[Len(providerCalls)].ended - resStart) * MsPerSecond

\* research_sync is about to return after a connection error that came one
\* second into the call
C16_Witness ==
    /\ resPc = "close"
    /\ resArg.entry = "research_sync"
    /\ ClientFailed
    /\ providerCalls[Len(providerCalls)].o.type = "openai.APIConnectionError"
    /\ resResult.error = "Connection error."
    /\ resResult.latency_ms = MsPerSecond

\* ---------------------------------------------------------------- C17
\* C17: at every point of the pipeline's execution at most one of
\* Processing (AudioProcessor._processing) and Recording
\* (TranscriptionRecorder.is_recording) is true.
C17_ProcessingExcludesRecording == ~(processing /\ recording)

\* ---------------------------------------------------------------- C18
\* C18: while a recording session is active, every frame read from the
\* microphone is passed to TranscriptionRecorder.add_audio and none is run
\* through VAD segmentation.
C18_RecordingBypassesSegmentation == ~pipeHist.segmentedWhileRecording

\* ---------------------------------------------------------------- C20
\* C20: the capture thread, which runs the microphone read loop, never
\* executes a speech transcription or a research provider call.
C20_CaptureThreadOnlyReads == capPc \notin {"transcribe", "research", "segment"}

\* ---------------------------------------------------------------- C19
\* C19: a recording session started by a note-start trigger always ends:
\* while the microphone keeps delivering frames the session is finalized, also
\* when every frame after the trigger is silent and no stop is issued.
C19_SessionEnds == recording ~> ~recording

\* ---------------------------------------------------------------- C21
\* the utterance holds a speech frame that arrived while a Processing cycle
\* was in flight
HoldsLateFrame(frames) ==
    \E i \in 1..Len(frames) : frames[i].late /\ IsSpeech(frames[i])

C22_SegmentProcessedOnce ==
    (capPc = "segment" /\ ret[CaptureThread].op = "add") => completeCalls = 0

\* ---------------------------------------------------------------- C24
\* the audio stream and the PyAudio handle have been released
Released == stream # "open" /\ pyaudio # "open"

\* C24: once the capture loop has been left, on whatever path, and once
\* AudioCapture.stop has returned, the audio stream and the PyAudio handle have
\* been released.
C24_ReleasedAfterExitAndStop ==
    (loopPc = "exited" \/ mainPc \in {"stopped", "stop_raised"}) => Released

\* ---------------------------------------------------------------- C23
\* C23: after MeetingAssistant._on_quit has completed no recording session is
\* active.
C23_NoSessionAfterQuit == mainPc = "quit" => ~recording

\* ---------------------------------------------------------------- C25
\* the capture thread is between two iterations of its loop: at the test of
\* the flags or in the sleep of the paused branch, and outside on_audio
LoopIdle == loopPc \in {"top", "sleep"} /\ capPc = "read"

\* what the pipeline keeps between frames: the state of the VAD, the recorder's
\* session, and the processing flag
PipelineState == <<vadVars, recData, processing>>

\* C25: pause() and resume() change only the paused flag, and from the moment
\* the capture loop finds the flag set between two iterations until the flag
\* is cleared, the loop reads and forwards no frame, and the VAD state, the
\* recorder session and the processing flag stay as they are.
C25_PausedLoopForwardsNothing ==
    [][/\ paused' # paused =>
            UNCHANGED <<running, stream, pyaudio, loopPc, cleanPc, mainPc, appVars>>
       /\ (paused /\ running /\ LoopIdle) =>
            (LoopIdle' /\ UNCHANGED <<PipelineState, capPc, handled>>)]_vars

\* the loop sleeps in its paused branch in the middle of an utterance
C25_Witness ==
    /\ paused
    /\ loopPc = "sleep"
    /\ in_speech
    /\ speech_buffer # << >>

\* C25 as stated: whenever the paused flag is set, the VAD state, the recorder
\* session and the processing flag are left unchanged.
C25_PausedFlagFreezesPipeline ==
    [][(paused /\ paused') => UNCHANGED PipelineState]_vars

\* ---------------------------------------------------------------- C26
RECURSIVE TrailingQuiet(_)
\* the number of frames at or below the threshold at the end of a sequence
TrailingQuiet(fs) ==
    IF fs = << >> \/ Loud(fs[Len(fs)]) THEN 0
    ELSE 1 + TrailingQuiet(SubSeq(fs, 1, Len(fs) - 1))

\* the last k elements of a sequence
LastFrames(fs, k) == SubSeq(fs, Len(fs) - k + 1, Len(fs))

\* C26: once the VAD is in_speech, every frame is appended to the buffer, a
\* speech frame resets the silence counter to 0, and the utterance ends exactly
\* when 10 consecutive silence frames have been received: the emitted audio is
\* the buffer with the frame and ends with those 10 frames, and afterwards the
\* buffer is empty, in_speech is false and the silence counter is 0.
C26_InSpeechUntilTenSilent ==
    [][(in_speech /\ fed' # fed) =>
         LET frame == fed'[Len(fed')]
         IN /\ silence_chunks = TrailingQuiet(fed)
            /\ Loud(frame) => silence_chunks' = 0
            /\ IF TrailingQuiet(fed') = SilenceEndChunks
                 THEN /\ utterances' = utterances + 1
                      /\ lastUtterance' = Append(speech_buffer, frame)
                      /\ LastFrames(lastUtterance', SilenceEndChunks)
                           = LastFrames(fed', SilenceEndChunks)
                      /\ AllQuiet(LastFrames(lastUtterance', SilenceEndChunks))
                      /\ speech_buffer' = << >>
                      /\ ~in_speech'
                      /\ silence_chunks' = 0
                 ELSE /\ speech_buffer' = Append(speech_buffer, frame)
                      /\ in_speech'
                      /\ TrailingQuiet(fed') < SilenceEndChunks
                      /\ UNCHANGED <<utterances, lastUtterance>>]_vars

\* Two frames of context and a speech frame, then ten silence frames: the
\* utterance has ended and the VAD is reset.
C26_Witness ==
    /\ Len(fed) = ContextChunks - 2 + SilenceEndChunks
    /\ ~Loud(fed[1])
    /\ utterances = 1
    /\ lastUtterance = fed
    /\ speech_buffer = << >> /\ ~in_speech /\ silence_chunks = 0

\* ---------------------------------------------------------------- C27
\* C27: after every processed frame, while the VAD is not in_speech its buffer
\* holds at most 5 frames, which are the frames received last (the oldest
\* frame is evicted first), and an utterance is never emitted from an empty
\* buffer.
C27_ContextWindow ==
    /\ [](~in_speech =>
            /\ Len(speech_buffer) <= ContextChunks
            /\ Len(speech_buffer) <= Len(fed)
            /\ speech_buffer = LastFrames(fed, Len(speech_buffer)))
    /\ [][/\ (~in_speech /\ ~in_speech' /\ fed' # fed
                /\ Len(speech_buffer) = ContextChunks) =>
               speech_buffer' = Append(Tail(speech_buffer), fed'[Len(fed')])
          /\ utterances' # utterances =>
               (speech_buffer # << >> /\ lastUtterance' # << >>)]_vars

\* A speech frame, then six silence frames: the speech frame, the oldest one,
\* has left the window.
C27_Witness ==
    /\ Len(fed) = ContextChunks + 2
    /\ Loud(fed[1])
    /\ ~in_speech
    /\ speech_buffer = LastFrames(fed, ContextChunks)

\* ---------------------------------------------------------------- C28
\* the research pattern matches in the text given to detect, and the topic of
\* the match is empty after cleaning
EmptyTopicMatch ==
    /\ patterns.research # << >>
    /\ LET r == SearchResearch(LowerStr(Strip(text)), patterns.research)
       IN r.found /\ CleanTopic(r.topic) = << >>

\* the pattern set without the research pattern
WithoutResearch(pats) == [pats EXCEPT !.research = << >>]

\* C28: a research-pattern match whose topic is empty after cleaning is not
\* returned: detect continues with the note-start and then the note-stop
\* phrases and returns what it returns without a research pattern; every
\* returned research match carries a non-empty topic and every returned
\* note-start or note-stop match carries no topic.
C28_EmptyTopicFallsThrough ==
    trigPc = "returned" =>
       /\ EmptyTopicMatch =>
            /\ result = DetectIn(WithoutResearch(patterns), text)
            /\ result.trigger_type # "research"
       /\ (result.kind = "match" /\ result.trigger_type = "research") =>
            (result.has_topic /\ result.topic # << >>)
       /\ (result.kind = "match" /\ result.trigger_type # "research") =>
            /\ result.trigger_type \in {"transcription_start", "transcription_stop"}
            /\ ~result.has_topic

\* a research phrase followed by a topic of punctuation only, in a text that
\* also holds a note-start phrase: the note-start match is returned
C28_Witness ==
    /\ trigPc = "returned"
    /\ EmptyTopicMatch
    /\ result.kind = "match"
    /\ result.trigger_type = "transcription_start"

\* ---------------------------------------------------------------- C29
\* the occurrences of research phrases with a topic in the text given to
\* detect: pairs of a position in the text and the number of the phrase in the
\* declaration order (research list, then custom list)
ResearchHits ==
    LET str == LowerStr(Strip(text))
    IN {h \in (1..(Len(str) + 1)) \X (1..Len(patterns.research)) :
           AltMatchAt(str, h[1], patterns.research[h[2]]).found}

\* the occurrence h gives the returned trigger phrase and topic
Determines(h) ==
    LET m == AltMatchAt(LowerStr(Strip(text)), h[1], patterns.research[h[2]])
    IN /\ result.trigger_phrase = m.phrase
       /\ result.topic = CleanTopic(m.topic)

\* C29: when several configured research phrases could match the same text,
\* the returned trigger phrase and topic are those of the leftmost occurrence
\* of any of the phrases, and the phrase declared first (research list, then
\* custom list) decides only among phrases that occur at that same position.
C29_LeftmostThenDeclarationOrder ==
    (trigPc = "returned" /\ result.kind = "match" /\ result.trigger_type = "research") =>
       \E h \in ResearchHits :
          /\ Determines(h)
          /\ \A g \in ResearchHits :
                h[1] < g[1] \/ (h[1] = g[1] /\ h[2] <= g[2])

\* two different phrases occur at the leftmost position, and the one declared
\* first was returned
C29_Witness ==
    /\ trigPc = "returned"
    /\ result.kind = "match" /\ result.trigger_type = "research"
    /\ \E h \in ResearchHits, g \in ResearchHits :
          /\ h[1] = g[1] /\ h[2] < g[2]
          /\ patterns.research[h[2]] # patterns.research[g[2]]
          /\ \A f \in ResearchHits : h[1] <= f[1]
          /\ result.trigger_phrase = patterns.research[h[2]]

\* C29 as stated: the phrase declared first among those that could match the
\* text determines the returned trigger phrase and topic.
C29_FirstDeclaredWins ==
    (trigPc = "returned" /\ result.kind = "match" /\ result.trigger_type = "research") =>
       \E h \in ResearchHits :
          /\ Determines(h)
          /\ \A g \in ResearchHits : h[2] <= g[2]

\* ---------------------------------------------------------------- C30
\* the complete pattern sets of the configurations of SpecRecompile
CompleteSets ==
    {CompilePatterns([DefaultTriggers EXCEPT !.custom = c]) :
        c \in {<< >>} \cup {<<phrase>> : phrase \in CustomPhrases}}

\* C30: a detect call that runs beside update_triggers or add_custom_trigger
\* does not fail and returns what detect returns for its text against a
\* complete pattern set, the old one or the new one.
C30_RecompilationIsAtomic ==
    trigPc = "returned" =>
       /\ result.kind # "raised"
       /\ \E pats \in CompleteSets : result = DetectIn(pats, text)

\* ---------------------------------------------------------------- C31
\* the provider the research call in flight has to use: the one its caller
\* named, otherwise the default provider
SelectedProvider ==
    IF resArg.provider # NoProvider THEN resArg.provider ELSE default_provider

\* research has passed its test of the provider name
ProviderChosen == resPc \in {"provider", "close", "returned"}

\* C31: research uses the explicitly named provider when one is given and
\* otherwise the default provider, which is an initialised provider whenever
\* one is initialised (the configured one, or else the first initialised);
\* when no provider is initialised it returns a failure result without any
\* provider call.
C31_ProviderSelection ==
    resPc # "new" =>
       /\ providers # {} => default_provider \in providers
       /\ ProviderChosen =>
            IF SelectedProvider \in providers
              THEN /\ providerCalls # << >>
                   /\ resPc \in {"close", "returned"} =>
                        resResult.provider = SelectedProvider
              ELSE /\ providerCalls = << >>
                   /\ resPc # "provider"
                   /\ resResult.kind = "result"
                   /\ ~resResult.success
                   /\ resResult.provider = "none"
       /\ (ProviderChosen /\ resArg.provider = NoProvider /\ providers # {}) =>
            providerCalls # << >>
       /\ (ProviderChosen /\ providers = {}) =>
            (providerCalls = << >> /\ ~resResult.success)

\* a call without a provider name was answered by the default provider
C31_Witness ==
    /\ resPc = "returned"
    /\ resArg.provider = NoProvider
    /\ providers # {}
    /\ resResult.provider = default_provider
    /\ resResult.success

\* a call without a provider name, with no provider initialised, has failed
C31_WitnessNoProvider ==
    /\ resPc = "returned"
    /\ resArg.provider = NoProvider
    /\ providers = {}
    /\ ~resResult.success

\* ---------------------------------------------------------------- C32
\* on_audio is transcribing an utterance, looking for a trigger in it or
\* acting on a match other than by starting the recording
DetectionRuns ==
    \/ capPc \in {"transcribe", "detect", "dispatch", "research", "stop_recording"}
    \/ trigPc # "idle"

C34_ReadErrorRetries ==
    [][/\ (loopPc = "read" /\ loopPc' # "read") => loopPc' \in {"top", "sleep"}
       /\ (loopPc = "read" /\ loopPc' = "sleep") =>
             UNCHANGED <<vadVars, pipeVars, recData, running, stream, pyaudio>>
       /\ (loopPc = "sleep" /\ loopPc' # "sleep") => loopPc' = "top"
       /\ (loopPc = "top" /\ loopPc' # "top") =>
             loopPc' = IF running THEN "read" ELSE "cleanup"]_vars

\* a read has failed in the middle of an utterance; the loop sleeps and
\* running is still true
C34_Witness ==
    /\ loopPc = "sleep"
    /\ running
    /\ stream = "open"
    /\ in_speech
    /\ speech_buffer # << >>

\* ---------------------------------------------------------------- C35
\* C35: trigger detection runs only on an utterance whose transcription is
\* not empty and has a confidence strictly above 0.3. For every other
\* utterance the detector is not called, no research call is made, the
\* recorder is neither started nor stopped, and on_audio goes straight to its
\* finally clause, from which the thread reads the next frame with
\* _processing cleared.
BeyondTranscription == processing /\ capPc \notin {"transcribe", "finally"}

C35_DetectionOnlyOnUsableText ==
    /\ [](BeyondTranscription =>
             /\ pipeHist.heard.text # << >>
             /\ pipeHist.heard.confidence > ConfidenceThreshold)
    /\ [][(capPc = "transcribe" /\ capPc' # capPc) =>
            LET heard == pipeHist'.heard
            IN  IF heard.text # << >> /\ heard.confidence > ConfidenceThreshold
                  THEN /\ capPc' = "detect"
                       /\ trigPc' = "detect"
                       /\ text' = heard.text
                  ELSE /\ capPc' = "finally"
                       /\ UNCHANGED <<recVars, callVars, histVars, resVars,
                                      trigVars, match>>]_vars
    /\ [][(capPc = "finally" /\ capPc' # capPc) =>
            (capPc' = "read" /\ ~processing')]_vars

\* a text heard with confidence exactly 0.3 has been dropped: on_audio stands
\* in its finally clause, no detection was run, and nothing is recorded
C35_Witness ==
    /\ capPc = "finally"
    /\ pipeHist.heard.text # << >>
    /\ pipeHist.heard.confidence = ConfidenceThreshold
    /\ trigPc = "idle"
    /\ match = NoResult
    /\ ~recording

\* an empty text that came back with the API's confidence has been dropped
C35_WitnessEmptyText ==
    /\ capPc = "finally"
    /\ pipeHist.heard.text = << >>
    /\ pipeHist.heard.confidence = ApiConfidence
    /\ match = NoResult

\* ---------------------------------------------------------------- C36
\* C36: the on_complete callback given to start_recording is invoked at most
\* once in a session, and only by an add_audio call that auto-stops the
\* session and returns a segment with audio, at a moment when that call holds
\* the recorder's lock; no step of stop_recording invokes it.
C36_CallbackOnlyOnAutoStop ==
    /\ [](completeCalls <= 1)
    /\ [][completeCalls' # completeCalls =>
            \/ completeCalls' = 0 /\ recording' /\ sessions' = sessions + 1
            \/ \E t \in Threads :
                 /\ arg[t].op = "add"
                 /\ pc[t] = "fin_build"
                 /\ lock = t
                 /\ on_complete # NoCallback
                 /\ completeCalls' = completeCalls + 1
                 /\ ret'[t].kind = "segment"
                 /\ ret'[t].autostop # "no"
                 /\ ret'[t].seg.audio # << >>]_vars
    /\ [][\A t \in Threads :
             (arg[t].op = "stop" /\ pc'[t] # pc[t]) =>
                completeCalls' = completeCalls]_vars

\* the capture thread's add_audio has auto-stopped a session that was started
\* with a callback, and the callback has run once
C36_Witness ==
    /\ completeCalls = 1
    /\ ~recording
    /\ ret["t1"].op = "add"
    /\ ret["t1"].kind = "segment"
    /\ on_complete # NoCallback

\* stop_recording has returned the segment of a session started with a
\* callback, and the callback has not run
C36_WitnessStop ==
    /\ completeCalls = 0
    /\ ~recording
    /\ ret["t2"].op = "stop"
    /\ ret["t2"].kind = "segment"
    /\ on_complete # NoCallback

\* ---------------------------------------------------------------- C37
\* C37: the audio of every returned segment is the concatenation, in arrival
\* order, of exactly the chunks add_audio was given since the session's
\* start_recording: a session starts with an empty buffer, the buffer grows
\* only by add_audio putting its chunk at the end, a returned segment carries
\* the whole buffer (the chunk that caused an auto-stop being its last one),
\* and the segment's sample count, which divided by sample_rate is its
\* duration_seconds, is the sum of the chunks' lengths.
C37_SegmentIsSessionAudio ==
    /\ [](audio_buffer # << >> => Len(audio_buffer) = appended)
    /\ [][sessions' # sessions => (audio_buffer' = << >> /\ appended' = 0)]_vars
    /\ [][(audio_buffer' # audio_buffer /\ audio_buffer' # << >>) =>
            \E t \in Threads :
               /\ arg[t].op = "add"
               /\ recording
               /\ audio_buffer' = Append(audio_buffer, arg[t].chunk)]_vars
    /\ [][\A t \in Threads :
            (Returns(t) /\ ret'[t].kind = "segment") =>
               LET seg == ret'[t].seg
               IN  /\ seg.audio = audio_buffer
                   /\ Len(seg.audio) = appended
                   /\ seg.samples = TotalSamples(seg.audio)
                   /\ arg[t].op = "add" =>
                        seg.audio[Len(seg.audio)] = arg[t].chunk
                   /\ audio_buffer' = << >>]_vars

\* the second session has been auto-stopped by add_audio, and its segment holds
\* two chunks that differ, in the order they came
C37_Witness ==
    /\ sessions = 2
    /\ ~recording
    /\ ret["t1"].op = "add"
    /\ ret["t1"].kind = "segment"
    /\ Len(ret["t1"].seg.audio) = 2
    /\ ret["t1"].seg.audio[1] # ret["t1"].seg.audio[2]

\* ---------------------------------------------------------------- C38
\* C38: after any sequence of start_recording, add_audio and stop_recording
\* calls, whenever no session is active the audio buffer is empty and
\* current_duration is 0; an add_audio call that finds no session active
\* returns None and leaves every field of the recorder as it was.
C38_IdleRecorderIsEmpty ==
    /\ []((lock = NoThread /\ ~recording) =>
             (audio_buffer = << >> /\ CurrentDuration = 0))
    /\ [][\A t \in Threads :
            (pc[t] = "add_check" /\ ~recording /\ pc'[t] # pc[t]) =>
               /\ pc'[t] = "idle"
               /\ ret'[t].op = "add"
               /\ ret'[t].kind = "none"
               /\ UNCHANGED <<recData, histVars>>]_vars

\* the second session has been auto-stopped and an add_audio call made after
\* it has returned None: the buffer is empty
C38_Witness ==
    /\ sessions = 2
    /\ emitted = 1
    /\ ~recording
    /\ lock = NoThread
    /\ ret["t1"].op = "add"
    /\ ret["t1"].kind = "none"
    /\ ret["t1"].prev = <<"add", "segment">>

\* ---------------------------------------------------------------- C39
\* C39: is_running is true only while a capture thread is alive: once the
\* thread has ended, and in particular when it ended because the device could
\* not be opened, is_running is false, so that start() does not return at
\* its first test.
C39_RunningOnlyWhileThreadAlive == running => loopPc # "exited"

\* ---------------------------------------------------------------- C40
\* C40: the _cleanup that stop() runs after its join and the _cleanup of the
\* capture thread's finally clause never run at the same time, and no
\* _cleanup finds a stream that is already closed or a handle that is already
\* gone at the moment it closes or terminates it.
InCleanup(t) == cleanPc[t] \notin {"out", "done", "raised"}

C40_CleanupsDoNotInterleave ==
    /\ ~(InCleanup("capture") /\ InCleanup("main"))
    /\ \A t \in CleanupThreads : cleanPc[t] # "raised"

====
